---- MODULE Spec2Model ----
(***************************************************************************)
(* Verification model of the DocuMind-HR question-answering core:          *)
(*   - the grounded-prompt builders (Ask/be/ask_router.py, wa_router.py)   *)
(*   - the shrink-and-retry gateway client (Ask/be/services/llm_client.py) *)
(*   - the ask endpoint, the WhatsApp webhook and the forwarding gateway   *)
(*   - the hybrid retriever client (Ask/be/services/retriever.py)          *)
(*   - hybrid search (server_hr.py, server/ops_router.py)                  *)
(*   - the summarize endpoints (main.py, server/ops_router.py)             *)
(*   - the gateway ask with its fan-out (server/ops_router.py)             *)
(*                                                                         *)
(* A Python str is modelled by its UTF-8 encoding: a sequence of byte      *)
(* values 0..255.  len(s.encode("utf-8")) is Len, len(s) is the number of  *)
(* bytes that are not continuation bytes.                                  *)
(***************************************************************************)
EXTENDS Integers, Sequences, FiniteSets, TLC

VARIABLES
    \* prompt builders
    question,       \* the question text, as (unit, count): unit repeated count times
    lang,           \* the language code
    passages,       \* the forwarded passages, their texts as (lead, unit, count, trail)
    percent_cap,    \* the percent cap
    env_max_bytes,  \* LLM_PROMPT_MAX_BYTES / WA_LLM_PROMPT_MAX_BYTES as configured
    built,          \* the builder that ran ("none" before) and what it returned
    \* Ask/be/services/llm_client.py
    PROMPT_MAX_BYTES,   \* module constant read from LLM_PROMPT_MAX_BYTES
    PROMPT_TAIL_BYTES,  \* module constant read from LLM_PROMPT_TAIL_BYTES
    LLM_AUTOSHRINK,     \* module constant read from LLM_AUTOSHRINK
    LLM_STYLE,          \* module constant read from LLM_STYLE
    gateway,        \* behaviour of the remote gateway
    c_prompt,       \* chat(): the prompt argument, as (unit, count) before the question block
    c_pc,           \* chat(): "idle", "loop" (at the loop head), "inflight", "done"
    c_i,            \* chat(): position of f in shrink_factors
    c_log,          \* chat(): one entry per request posted, with its outcome
    c_result,       \* chat(): the dict returned
    c_last_err,     \* chat(): last_err
    \* ask endpoint, WhatsApp webhook, forwarding gateway
    a_req,          \* the request: entry point, mode or message text, language, sizes
    a_cfg,          \* environment: ASK_USE_LLM, ASK_SHOW_SOURCES, whether the LLM base URL is set
    a_pc,           \* handler position: "idle", "retrieving", "llm_wait", "done", "raised"
    a_retrieved,    \* what retrieve_hybrid returned
    a_fwd,          \* fwd, the passages forwarded as evidence
    a_calls,        \* how often the remote generator and generate_answer were invoked
    a_upstream,     \* the outcomes of the upstream calls, in order
    a_response,     \* the response of the handler
    f_pc,           \* ask_forward_twiml: "idle", "posted", "done"
    f_reply,        \* ask_forward_twiml: the TwiML it returned
    \* Ask/be/services/retriever.py
    PARAM_VARIANTS, \* the module global _PARAM_VARIANTS
    r_calls,        \* the retrieve_hybrid calls in progress, by call number
    \* hybrid search: api_search of server_hr.py, search_hybrid of server/ops_router.py
    s_req,          \* the endpoint called, the two pools, alpha, n or k, the reranker
    s_pc,           \* "start", "ranked", "strict", "done"
    s_cands,        \* api_search: cands, fused, sorted and reranked
    s_fused,        \* api_search: fused, the candidates kept so far
    s_out,          \* the list the endpoint returned
    \* Ask/be/services/answerer.py: the fallback composer called on its own
    x_passages,     \* the passage list handed to the composer
    x_lang,         \* the language code requested
    x_out,          \* the function that ran ("none" before) and what it returned
    \* summarize: llm_preview, llm_save of main.py, llm_preview_v2 of server/ops_router.py
    u_req,          \* the endpoint called and the request body
    u_doc,          \* what the document's passages, text, ocr and chunks reads return
    u_cfg,          \* environment: whether the LLM base URL is set
    u_pc,           \* handler position: "idle", "llm_wait", "done"
    u_sent,         \* the text handed to llm.summarize and where it came from
    u_response,     \* the response of the handler
    u_log,          \* the finished calls: gateway outcome and response, in order
    \* gateway ask: _gateway_ask_core of server/ops_router.py
    g_req,          \* the request body and whether the caller's rate bucket is full
    g_cands,        \* cand_ids, the candidate documents in the order they are processed
    g_results,      \* what _retrieve_rows_for_doc returns for each document
    g_i,            \* the position of the fan-out loop in cand_ids
    g_rows,         \* global_rows
    g_pc,           \* "idle", "fanout", "done"
    g_out           \* the response: answer kind and cites

promptVars == <<question, lang, passages, percent_cap, env_max_bytes, built>>

chatVars == <<PROMPT_MAX_BYTES, PROMPT_TAIL_BYTES, LLM_AUTOSHRINK, LLM_STYLE, gateway,
              c_prompt, c_pc, c_i, c_log, c_result, c_last_err>>

askVars == <<a_req, a_cfg, a_pc, a_retrieved, a_fwd, a_calls, a_upstream, a_response,
             f_pc, f_reply>>

retrVars == <<PARAM_VARIANTS, r_calls>>

searchVars == <<s_req, s_pc, s_cands, s_fused, s_out>>

answererVars == <<x_passages, x_lang, x_out>>

summVars == <<u_req, u_doc, u_cfg, u_pc, u_sent, u_response, u_log>>

gaskVars == <<g_req, g_cands, g_results, g_i, g_rows, g_pc, g_out>>

vars == <<promptVars, chatVars, askVars, retrVars, searchVars, answererVars, summVars,
         gaskVars>>

\* What the actions of one component leave alone: every other component.
notPromptVars == <<chatVars, askVars, retrVars, searchVars, answererVars, summVars,
    gaskVars>>

notChatVars == <<promptVars, askVars, retrVars, searchVars, answererVars, summVars,
    gaskVars>>

notAskVars == <<promptVars, chatVars, retrVars, searchVars, answererVars, summVars,
    gaskVars>>

notRetrVars == <<promptVars, chatVars, askVars, searchVars, answererVars, summVars,
    gaskVars>>

notAnswererVars == <<promptVars, chatVars, askVars, retrVars, searchVars, summVars,
    gaskVars>>

notSummVars == <<promptVars, chatVars, askVars, retrVars, searchVars, answererVars, gaskVars>>

notGaskVars == <<promptVars, chatVars, askVars, retrVars, searchVars, answererVars, summVars>>

notSearchVars == <<promptVars, chatVars, askVars, retrVars, answererVars, summVars,
    gaskVars>>

\* Values of the variables a specification does not use.
PromptIdle ==
    /\ question = <<<<>>, 0>> /\ lang = "" /\ passages = <<>> /\ percent_cap = 0
    /\ env_max_bytes = 0 /\ built = [builder |-> "off"]

ChatIdle ==
    /\ PROMPT_MAX_BYTES = 0 /\ PROMPT_TAIL_BYTES = 0 /\ LLM_AUTOSHRINK = FALSE
    /\ LLM_STYLE = "" /\ gateway = [mode |-> "off"] /\ c_prompt = <<<<>>, 0>>
    /\ c_pc = "off" /\ c_i = 0 /\ c_log = <<>> /\ c_result = [returned |-> FALSE]
    /\ c_last_err = ""

AskIdle ==
    /\ a_req = [entry |-> "off"] /\ a_cfg = [off |-> TRUE] /\ a_pc = "off"
    /\ a_retrieved = <<>> /\ a_fwd = <<>> /\ a_calls = [llm |-> 0, gen |-> 0]
    /\ a_upstream = <<>> /\ a_response = [kind |-> "off"] /\ f_pc = "off" /\ f_reply = <<>>

SummIdle ==
    /\ u_req = [entry |-> "off"] /\ u_doc = [off |-> TRUE] /\ u_cfg = [off |-> TRUE]
    /\ u_pc = "off" /\ u_sent = [source |-> "off"] /\ u_response = [kind |-> "off"]
    /\ u_log = <<>>

GaskIdle ==
    /\ g_req = [off |-> TRUE] /\ g_cands = <<>> /\ g_results = <<>> /\ g_i = 0
    /\ g_rows = <<>> /\ g_pc = "off" /\ g_out = [kind |-> "off"]

RetrIdle == PARAM_VARIANTS = <<>> /\ r_calls = <<>>

SearchIdle ==
    /\ s_req = [entry |-> "off"] /\ s_pc = "off" /\ s_cands = <<>> /\ s_fused = <<>>
    /\ s_out = <<>>

AnswererIdle == x_passages = <<>> /\ x_lang = "" /\ x_out = [fn |-> "off"]

----------------------------------------------------------------------------
(* Arithmetic helpers                                                      *)

Max(a, b) == IF a >= b THEN a ELSE b

Min(a, b) == IF a <= b THEN a ELSE b

\* _cap(n, lo, hi) = max(lo, min(hi, n))
cap_int(n, lo, hi) == Max(lo, Min(hi, n))

----------------------------------------------------------------------------
(* UTF-8                                                                   *)

\* A continuation byte 10xxxxxx.
IsCont(b) == b >= 128 /\ b < 192

\* Number of bytes of the code point a lead byte starts.
Width(b) == IF b < 128 THEN 1 ELSE IF b < 224 THEN 2 ELSE IF b < 240 THEN 3 ELSE 4

\* len(s): the number of code points of a well-formed string.
CharLen(s) == Cardinality({i \in DOMAIN s : ~IsCont(s[i])})

\* bytes.decode("utf-8", errors="ignore") of a slice of a well-formed string:
\* the continuation bytes that lead the slice and the incomplete code point
\* that ends it are dropped, every other byte is kept.
RECURSIVE DropLeadingCont(_)
DropLeadingCont(b) ==
    IF b # <<>> /\ IsCont(Head(b)) THEN DropLeadingCont(Tail(b)) ELSE b

RECURSIVE LastLead(_, _)
LastLead(b, i) ==
    IF i = 0 THEN 0 ELSE IF ~IsCont(b[i]) THEN i ELSE LastLead(b, i - 1)

DropTrailingPartial(b) ==
    LET j == LastLead(b, Len(b))
    IN  IF j = 0 THEN <<>>
        ELSE IF j + Width(b[j]) - 1 <= Len(b) THEN b
        ELSE SubSeq(b, 1, j - 1)

decode_ignore(b) == DropTrailingPartial(DropLeadingCont(b))

\* b[:n] for n >= 0
Prefix(b, n) == SubSeq(b, 1, Min(n, Len(b)))

\* str.strip(): ASCII white space (space, \t, \n, \v, \f, \r) is removed at both ends.
IsSpace(b) == b = 32 \/ (b >= 9 /\ b <= 13)

RECURSIVE LStrip(_)
LStrip(s) == IF s # <<>> /\ IsSpace(Head(s)) THEN LStrip(Tail(s)) ELSE s

RECURSIVE RStrip(_)
RStrip(s) ==
    IF s # <<>> /\ IsSpace(s[Len(s)]) THEN RStrip(SubSeq(s, 1, Len(s) - 1)) ELSE s

strip(s) == RStrip(LStrip(s))

\* str(n) for n >= 0: the decimal digits.
RECURSIVE Digits(_)
Digits(n) == IF n < 10 THEN <<48 + n>> ELSE Digits(n \div 10) \o <<48 + (n % 10)>>

\* s * n: n copies of the byte string u.
Rep(u, n) == [i \in 1..(n * Len(u)) |-> u[((i - 1) % Len(u)) + 1]]

\* needle in hay
Contains(hay, needle) ==
    LET m == Len(needle)
    IN  \/ m = 0
        \/ \E i \in 1..(Len(hay) - m + 1) :
              /\ hay[i] = needle[1]
              /\ hay[i + m - 1] = needle[m]
              /\ SubSeq(hay, i, i + m - 1) = needle

EndsWith(s, suffix) ==
    /\ Len(suffix) <= Len(s)
    /\ SubSeq(s, Len(s) - Len(suffix) + 1, Len(s)) = suffix

----------------------------------------------------------------------------
(* String literals of the source, as UTF-8                                 *)

\* header of _build_grounded_prompt
AskHeader ==
    << 89, 111, 117, 32, 97, 114, 101, 32, 68, 111, 99, 117, 77, 105, 110, 100, 46, 32, 65,
       110, 115, 119, 101, 114, 32, 99, 108, 101, 97, 114, 108, 121, 32, 97, 110, 100, 32, 99,
       111, 110, 99, 105, 115, 101, 108, 121, 32, 117, 115, 105, 110, 103, 32, 79, 78, 76, 89,
       32, 116, 104, 101, 32, 101, 118, 105, 100, 101, 110, 99, 101, 32, 98, 101, 108, 111,
       119, 46, 10, 73, 102, 32, 116, 104, 101, 32, 101, 118, 105, 100, 101, 110, 99, 101, 32,
       100, 111, 101, 115, 32, 110, 111, 116, 32, 99, 111, 110, 116, 97, 105, 110, 32, 116,
       104, 101, 32, 97, 110, 115, 119, 101, 114, 44, 32, 115, 97, 121, 32, 121, 111, 117, 32,
       100, 111, 110, 39, 116, 32, 104, 97, 118, 101, 32, 101, 110, 111, 117, 103, 104, 32,
       105, 110, 102, 111, 114, 109, 97, 116, 105, 111, 110, 46, 10, 10, 69, 86, 73, 68, 69,
       78, 67, 69, 58, 10 >>

\* header of _build_prompt
WaHeader ==
    << 89, 111, 117, 32, 97, 114, 101, 32, 68, 111, 99, 117, 77, 105, 110, 100, 46, 32, 65,
       110, 115, 119, 101, 114, 32, 99, 108, 101, 97, 114, 108, 121, 32, 97, 110, 100, 32, 99,
       111, 110, 99, 105, 115, 101, 108, 121, 32, 117, 115, 105, 110, 103, 32, 79, 78, 76, 89,
       32, 116, 104, 101, 32, 101, 118, 105, 100, 101, 110, 99, 101, 32, 98, 101, 108, 111,
       119, 46, 10, 68, 111, 32, 78, 79, 84, 32, 105, 110, 99, 108, 117, 100, 101, 32, 108,
       105, 116, 101, 114, 97, 108, 32, 116, 97, 103, 115, 32, 108, 105, 107, 101, 32, 91, 68,
       79, 67, 35, 226, 128, 166, 93, 32, 105, 110, 32, 121, 111, 117, 114, 32, 97, 110, 115,
       119, 101, 114, 59, 32, 99, 105, 116, 97, 116, 105, 111, 110, 115, 32, 97, 114, 101, 32,
       97, 116, 116, 97, 99, 104, 101, 100, 32, 115, 101, 112, 97, 114, 97, 116, 101, 108, 121,
       46, 10, 10, 69, 86, 73, 68, 69, 78, 67, 69, 58, 10 >>

\* "\n\nQUESTION: "
QuestionPrefix ==
    << 10, 10, 81, 85, 69, 83, 84, 73, 79, 78, 58, 32 >>

\* "Answer in Hindi."
AnswerInHindi ==
    << 65, 110, 115, 119, 101, 114, 32, 105, 110, 32, 72, 105, 110, 100, 105, 46 >>

\* "Answer in English."
AnswerInEnglish ==
    << 65, 110, 115, 119, 101, 114, 32, 105, 110, 32, 69, 110, 103, 108, 105, 115, 104, 46 >>

\* "\n...\n" with U+2026 as the ellipsis
ElisionMarker ==
    << 10, 226, 128, 166, 10 >>

----------------------------------------------------------------------------
(* Bounds of the model and the inputs drawn within them                    *)

\* Longest passage list handed to a prompt builder.
MaxPassages == 2

\* The question lengths are swept over base .. base + MaxPad characters, so
\* that a byte cut falls on every offset inside a multi-byte code point.
MaxPad == 1

\* Questions as (unit, length in characters): "q" or the Devanagari letter
\* KA (3 bytes), repeated.  With a 1024-byte prompt the question block
\* leaves room for all the evidence (0), for part of it (90), for less than
\* the header (280 KA), for nothing (993 "q", 331 KA: budget = 0), and with
\* one more character it is larger than the whole prompt.
QuestionShapes ==
    { <<<<113>>, 0>>, <<<<113>>, 90>>, <<<<224, 164, 149>>, 280>>,
      <<<<113>>, 993>>, <<<<224, 164, 149>>, 331>> }

Questions == {<<sh[1], sh[2] + d>> : sh \in QuestionShapes, d \in 0..MaxPad}

\* The text a (unit, count) pair stands for.
Text(sh) == Rep(sh[1], sh[2])

Langs == {"en", "hi", "hi-IN"}

\* Passages of documents "d1" and "d2": ASCII text with white space around
\* it, Devanagari text, and white space only.
PassageSet ==
    { [doc_id |-> <<100, 49>>, chunk |-> 0,
       text |-> [lead |-> <<32>>, unit |-> <<101>>, count |-> 200, trail |-> <<32, 10>>]],
      [doc_id |-> <<100, 49>>, chunk |-> 12,
       text |-> [lead |-> <<>>, unit |-> <<224, 164, 149>>, count |-> 150, trail |-> <<>>]],
      [doc_id |-> <<100, 50>>, chunk |-> 4,
       text |-> [lead |-> <<32, 32>>, unit |-> <<>>, count |-> 0, trail |-> <<>>]] }

\* The passages with their texts written out.
PassageText(t) == t.lead \o Rep(t.unit, t.count) \o t.trail

Expand(ps) ==
    [i \in DOMAIN ps |->
        [doc_id |-> ps[i].doc_id, chunk |-> ps[i].chunk, text |-> PassageText(ps[i].text)]]

PassageLists == UNION {[1..n -> PassageSet] : n \in 1..MaxPassages}

\* Percent caps a request may carry.  For every total_chars the passage
\* lists above produce, int(total_chars * (cap / 100.0)) in double
\* arithmetic equals the exact quotient used below.
PercentCaps == {40, 100}

\* Configured prompt byte limits: one below the 1024 floor, one above it.
EnvMaxBytes == {512, 1100}

----------------------------------------------------------------------------
(* Ask/be/ask_router.py: the grounded-prompt builder                       *)

\* (lang or "en").lower()
lang_lower(l) ==
    CASE l = "" -> "en"
      [] l = "HI" -> "hi"
      [] l = "hi-IN" -> "hi-in"
      [] OTHER -> l

\* s.startswith("hi") for the language codes above
starts_with_hi(l) == l \in {"hi", "hi-in"}

\* A variant that cuts the bytes and keeps a split code point.
truncate_bytes_raw(s, max_bytes) == Prefix(s, Max(0, max_bytes))

\* _truncate_utf8_to_bytes of ask_router.py
truncate_utf8_to_bytes(s, max_bytes) == decode_ignore(Prefix(s, Max(0, max_bytes)))

\* f"[{p.get('doc_id')}#{p.get('chunk', 0)}] {t}\n"
evidence_line(p, t) ==
    <<91>> \o p.doc_id \o <<35>> \o Digits(p.chunk) \o <<93, 32>> \o t \o <<10>>

\* sum(len(p.get("text", "")) for p in passages)
RECURSIVE sum_text_chars(_)
sum_text_chars(ps) ==
    IF ps = <<>> THEN 0 ELSE CharLen(Head(ps).text) + sum_text_chars(Tail(ps))

\* total_chars = sum(...) or 1
total_chars(ps) == IF sum_text_chars(ps) = 0 THEN 1 ELSE sum_text_chars(ps)

\* pct_chars = int(total_chars * (_cap(percent_cap, 10, 100) / 100.0))
pct_chars(ps, pc) == (total_chars(ps) * cap_int(pc, 10, 100)) \div 100

\* qline = f"\n\nQUESTION: {question}\n{lang_line}"
ask_qline(q, l) ==
    QuestionPrefix \o q \o <<10>> \o
    (IF starts_with_hi(lang_lower(l)) THEN AnswerInHindi ELSE AnswerInEnglish)

\* max_bytes = max(1024, _prompt_max_bytes())
ask_max_bytes(env) == Max(1024, env)

\* The for loop of _build_grounded_prompt from passage i on.  The state of
\* the loop is pieces (joined), used_bytes and used_chars; lines records the
\* passage index and the rendered bytes of every line appended.
RECURSIVE ask_loop(_, _, _, _, _, _)
ask_loop(ps, i, acc, budget, pct, used_chars) ==
    IF i > Len(ps) THEN acc
    ELSE
      LET t == strip(ps[i].text)
      IN  IF t = <<>> THEN ask_loop(ps, i + 1, acc, budget, pct, used_chars)
          ELSE
            LET uc == used_chars + CharLen(t)
                line == evidence_line(ps[i], t)
                lb == Len(line)
                remain == budget - acc.used_bytes
                cut == truncate_utf8_to_bytes(line, remain)
            IN  IF uc > pct /\ pct > 0 THEN acc
                ELSE IF acc.used_bytes + lb > budget
                THEN IF remain <= 0 THEN acc
                     ELSE [pieces |-> acc.pieces \o cut,
                           used_bytes |-> acc.used_bytes + Len(cut),
                           lines |-> Append(acc.lines, [idx |-> i, line |-> cut])]
                ELSE ask_loop(ps, i + 1,
                              [pieces |-> acc.pieces \o line,
                               used_bytes |-> acc.used_bytes + lb,
                               lines |-> Append(acc.lines, [idx |-> i, line |-> line])],
                              budget, pct, uc)

\* A variant without the final whole-prompt truncation.
build_grounded_prompt_no_final_cut(q, l, ps, pc, env) ==
    LET qline == ask_qline(q, l)
        budget == ask_max_bytes(env) - Len(qline)
        body == ask_loop(ps, 1,
                         [pieces |-> AskHeader, used_bytes |-> Len(AskHeader), lines |-> <<>>],
                         budget, pct_chars(ps, pc), 0)
    IN  [prompt |-> IF budget <= 0 THEN AskHeader \o qline ELSE body.pieces \o qline,
         lines |-> IF budget <= 0 THEN <<>> ELSE body.lines,
         qline |-> qline,
         max_bytes |-> ask_max_bytes(env)]

\* _build_grounded_prompt(question, lang, passages, percent_cap)
build_grounded_prompt(q, l, ps, pc, env) ==
    LET qline == ask_qline(q, l)
        max_bytes == ask_max_bytes(env)
        budget == max_bytes - Len(qline)
        body == ask_loop(ps, 1,
                         [pieces |-> AskHeader, used_bytes |-> Len(AskHeader), lines |-> <<>>],
                         budget, pct_chars(ps, pc), 0)
    IN  IF budget <= 0
        THEN [prompt |-> truncate_utf8_to_bytes(AskHeader \o qline, max_bytes),
              lines |-> <<>>, qline |-> qline, max_bytes |-> max_bytes]
        ELSE [prompt |-> truncate_utf8_to_bytes(body.pieces \o qline, max_bytes),
              lines |-> body.lines, qline |-> qline, max_bytes |-> max_bytes]

----------------------------------------------------------------------------
(* Ask/be/wa_router.py: the prompt builder of the WhatsApp webhook         *)

\* _truncate_utf8_to_bytes of wa_router.py
wa_truncate_utf8_to_bytes(s, max_bytes) == decode_ignore(Prefix(s, Max(0, max_bytes)))

\* qline of _build_prompt: Hindi only when lang.lower() is exactly "hi"
wa_qline(q, l) ==
    QuestionPrefix \o q \o <<10>> \o
    (IF lang_lower(l) = "hi" THEN AnswerInHindi ELSE AnswerInEnglish)

\* The for loop of _build_prompt from passage i on.
RECURSIVE wa_loop(_, _, _, _, _, _)
wa_loop(ps, i, acc, budget, pct, used_chars) ==
    IF i > Len(ps) THEN acc
    ELSE
      LET t == ps[i].text
      IN  IF t = <<>> THEN wa_loop(ps, i + 1, acc, budget, pct, used_chars)
          ELSE
            LET uc == used_chars + CharLen(t)
                line == evidence_line(ps[i], strip(t))
                lb == Len(line)
                remain == budget - acc.used_bytes
                cut == wa_truncate_utf8_to_bytes(line, remain)
            IN  IF uc > pct /\ pct > 0 THEN acc
                ELSE IF acc.used_bytes + lb > budget
                THEN IF remain > 0
                     THEN [pieces |-> acc.pieces \o cut,
                           used_bytes |-> acc.used_bytes,
                           lines |-> Append(acc.lines, [idx |-> i, line |-> cut])]
                     ELSE acc
                ELSE wa_loop(ps, i + 1,
                             [pieces |-> acc.pieces \o line,
                              used_bytes |-> acc.used_bytes + lb,
                              lines |-> Append(acc.lines, [idx |-> i, line |-> line])],
                             budget, pct, uc)

\* _build_prompt(question, lang, passages, percent_cap, max_bytes)
build_prompt(q, l, ps, pc, max_bytes) ==
    LET qline == wa_qline(q, l)
        budget == max_bytes - Len(qline)
        body == wa_loop(ps, 1,
                        [pieces |-> WaHeader, used_bytes |-> Len(WaHeader), lines |-> <<>>],
                        budget, pct_chars(ps, pc), 0)
    IN  IF budget <= 0
        THEN [prompt |-> wa_truncate_utf8_to_bytes(WaHeader \o qline, max_bytes),
              lines |-> <<>>, qline |-> qline, max_bytes |-> max_bytes]
        ELSE [prompt |-> wa_truncate_utf8_to_bytes(body.pieces \o qline, max_bytes),
              lines |-> body.lines, qline |-> qline, max_bytes |-> max_bytes]

\* webhook: max_bytes=max(1024, WA_LLM_PROMPT_MAX_BYTES)
wa_max_bytes(env) == Max(1024, env)

----------------------------------------------------------------------------
(* SpecPrompt: the two builders applied to every input drawn in Init       *)

NotBuilt == [builder |-> "none", prompt |-> <<>>, lines |-> <<>>, qline |-> <<>>, max_bytes |-> 0]

InitPrompt ==
    /\ question \in Questions
    /\ lang \in Langs
    /\ passages \in PassageLists
    /\ percent_cap \in PercentCaps
    /\ env_max_bytes \in EnvMaxBytes
    /\ built = NotBuilt
    /\ ChatIdle /\ AskIdle /\ RetrIdle /\ SearchIdle /\ AnswererIdle /\ SummIdle /\ GaskIdle

\* _ask_answer_core, step 3: built = _build_grounded_prompt(req.q, req.lang, fwd, req.percent_cap)
BuildGroundedPrompt ==
    /\ built.builder = "none"
    /\ built' = [builder |-> "ask"] @@
                build_grounded_prompt(Text(question), lang, Expand(passages), percent_cap,
                                      env_max_bytes)
    /\ UNCHANGED <<question, lang, passages, percent_cap, env_max_bytes>>
    /\ UNCHANGED notPromptVars

\* webhook: prompt = _build_prompt(question, lang, fwd, WA_PERCENT_CAP, max_bytes=...)
BuildPrompt ==
    /\ built.builder = "none"
    /\ built' = [builder |-> "wa"] @@
                build_prompt(Text(question), lang, Expand(passages), percent_cap,
                             wa_max_bytes(env_max_bytes))
    /\ UNCHANGED <<question, lang, passages, percent_cap, env_max_bytes>>
    /\ UNCHANGED notPromptVars

NextPrompt == BuildGroundedPrompt \/ BuildPrompt

SpecPrompt == InitPrompt /\ [][NextPrompt]_vars

----------------------------------------------------------------------------
(* Claims about the prompt builders                                        *)

\* C1: the prompt a builder returns is at most max_bytes bytes long, for
\* every question, language, passage list, percent cap and byte budget.
C1_PromptWithinMaxBytes ==
    built.builder # "none" => Len(built.prompt) <= built.max_bytes

\* C1 witness: a builder assembled more than max_bytes (header plus question
\* block overflow the prompt) and the prompt it returned is within max_bytes.
C1_Witness ==
    /\ built.builder = "ask"
    /\ Len(build_grounded_prompt_no_final_cut(Text(question), lang, Expand(passages),
                                               percent_cap, env_max_bytes).prompt) > built.max_bytes
    /\ Len(built.prompt) <= built.max_bytes
    /\ Len(built.prompt) > built.max_bytes - 3

\* C2: whenever max_bytes is at least the byte size of the
\* question block, the prompt contains the complete question block.
C2_QuestionBlockPreserved ==
    (built.builder # "none" /\ built.max_bytes >= Len(built.qline))
        => Contains(built.prompt, built.qline)

\* C2 witness: the question block fits max_bytes, and evidence was cut to
\* make room for it.
C2_Witness ==
    /\ built.builder # "none"
    /\ built.max_bytes >= Len(built.qline)
    /\ EndsWith(built.prompt, built.qline)
    /\ \E k \in DOMAIN built.lines :
          Len(built.lines[k].line) <
              Len(evidence_line(Expand(passages)[built.lines[k].idx],
                                strip(Expand(passages)[built.lines[k].idx].text)))


----------------------------------------------------------------------------
(* Claims about the character budget of the prompt builders                *)

\* The characters the loop of the builder adds to used_chars for passage p:
\* len(t) with t stripped in _build_grounded_prompt, unstripped in _build_prompt.
counted_chars(p) ==
    IF built.builder = "ask" THEN CharLen(strip(p.text)) ELSE CharLen(p.text)

\* The loop passes over p without counting it (`if not t: continue`).
skipped(p) ==
    IF built.builder = "ask" THEN strip(p.text) = <<>> ELSE p.text = <<>>

\* used_chars after the first k passages, were the loop never left.
RECURSIVE cum_chars(_, _)
cum_chars(ps, k) ==
    IF k = 0 THEN 0 ELSE cum_chars(ps, k - 1) + counted_chars(ps[k])

\* The bytes of header, all evidence lines in full and question block.
RECURSIVE all_lines_bytes(_, _)
all_lines_bytes(ps, k) ==
    IF k = 0 THEN 0
    ELSE all_lines_bytes(ps, k - 1)
         + (IF skipped(ps[k]) THEN 0 ELSE Len(evidence_line(ps[k], strip(ps[k].text))))

\* The byte limit leaves room for every evidence line: only the character
\* budget can end the loop.
EvidenceFits ==
    /\ built.builder \in {"ask", "wa"}
    /\ (IF built.builder = "ask" THEN Len(AskHeader) ELSE Len(WaHeader))
         + all_lines_bytes(Expand(passages), Len(passages)) + Len(built.qline)
       <= built.max_bytes

\* The indices of the passages rendered in the prompt.
RenderedIdx == {built.lines[j].idx : j \in DOMAIN built.lines}

\* C15: in the grounded-prompt builders passages are taken in ranked order
\* while the cumulative character count stays within
\* total_chars * percent_cap / 100; the first passage whose inclusion makes
\* the count exceed the budget is still rendered once, and no passage after
\* it is rendered.  (Stated where the byte limit leaves room for all lines.)
C15_CrossingPassageRendered ==
    (EvidenceFits /\ pct_chars(Expand(passages), percent_cap) > 0) =>
        LET ps == Expand(passages)
            pct == pct_chars(ps, percent_cap)
        IN  /\ \A i \in DOMAIN ps :
                  i \in RenderedIdx <=> (~skipped(ps[i]) /\ cum_chars(ps, i - 1) <= pct)
            /\ \A j \in DOMAIN built.lines :
                  /\ built.lines[j].line =
                         evidence_line(ps[built.lines[j].idx], strip(ps[built.lines[j].idx].text))
                  /\ Contains(built.prompt, built.lines[j].line)

\* What the loops do: a passage is rendered exactly when the count including
\* it is within the budget, in ranked order.
RenderedWithinCharBudget ==
    EvidenceFits =>
        LET ps == Expand(passages)
            pct == pct_chars(ps, percent_cap)
        IN  /\ \A i \in DOMAIN ps :
                  i \in RenderedIdx <=>
                      (~skipped(ps[i]) /\ (pct = 0 \/ cum_chars(ps, i) <= pct))
            /\ \A j, k \in DOMAIN built.lines :
                  j < k => built.lines[j].idx < built.lines[k].idx
            /\ \A j \in DOMAIN built.lines : Contains(built.prompt, built.lines[j].line)

\* The evidence line of the passage a rendered line was made from, in full.
FullLine(j) ==
    evidence_line(Expand(passages)[built.lines[j].idx],
                  strip(Expand(passages)[built.lines[j].idx].text))

\* The bytes of the rendered lines before line j.
RECURSIVE RenderedBytes(_)
RenderedBytes(j) == IF j = 0 THEN 0 ELSE RenderedBytes(j - 1) + Len(built.lines[j].line)

\* The rendered lines joined.
RECURSIVE RenderedText(_)
RenderedText(j) == IF j = 0 THEN <<>> ELSE RenderedText(j - 1) \o built.lines[j].line

\* What is left of the byte budget when line j is reached.
RemainAt(j) ==
    built.max_bytes - Len(built.qline)
        - (IF built.builder = "ask" THEN Len(AskHeader) ELSE Len(WaHeader))
        - RenderedBytes(j - 1)

\* p is the longest prefix of full that is made of whole characters and has
\* at most room bytes.
LongestWholePrefix(p, full, room) ==
    /\ Len(p) <= room /\ Len(p) <= Len(full)
    /\ p = SubSeq(full, 1, Len(p))
    /\ Len(p) < Len(full) => ~IsCont(full[Len(p) + 1])
    /\ \A n \in (Len(p) + 1)..Min(room, Len(full)) :
          n < Len(full) /\ IsCont(full[n + 1])

\* C27: in the grounded-prompt builders at most one evidence line is
\* truncated, it is the last evidence line of the prompt, its truncation ends
\* on a whole UTF-8 code point (the kept text is the longest whole-character
\* prefix that fits the remaining byte budget), and every earlier evidence
\* line is rendered complete.
C27_OnlyLastLineTruncated ==
    (built.builder \in {"ask", "wa"} /\ built.lines # <<>>) =>
        LET last == Len(built.lines)
        IN  /\ \A j \in 1..(last - 1) : built.lines[j].line = FullLine(j)
            /\ \/ built.lines[last].line = FullLine(last)
               \/ LongestWholePrefix(built.lines[last].line, FullLine(last), RemainAt(last))
            /\ built.prompt =
                   (IF built.builder = "ask" THEN AskHeader ELSE WaHeader)
                       \o RenderedText(last) \o built.qline

\* C27 witness: one line is complete, the next is cut, and the byte budget
\* ends inside a code point of it, which is left out whole.
C27_Witness ==
    /\ built.builder = "ask"
    /\ Len(built.lines) = 2
    /\ built.lines[1].line = FullLine(1)
    /\ Len(built.lines[2].line) < Len(FullLine(2))
    /\ Len(built.lines[2].line) < RemainAt(2)
    /\ Len(built.lines[2].line) > 20

----------------------------------------------------------------------------
(* Ask/be/services/llm_client.py: byte cap with tail preservation          *)

\* "\n\nLENGTH & FORMAT: "
LengthFormatPrefix ==
    << 10, 10, 76, 69, 78, 71, 84, 72, 32, 38, 32, 70, 79, 82, 77, 65, 84, 58, 32 >>

\* "Format: bullet points."
FormatBullets ==
    << 70, 111, 114, 109, 97, 116, 58, 32, 98, 117, 108, 108, 101, 116, 32, 112, 111, 105, 110,
       116, 115, 46 >>

\* _truncate_utf8_to_bytes of llm_client.py
llm_truncate_utf8_to_bytes(s, max_bytes) ==
    IF max_bytes <= 0 THEN <<>> ELSE decode_ignore(Prefix(s, max_bytes))

\* b[-n:] for n >= 0: the last n bytes, and all of b when n = 0 or n >= len(b)
LastBytes(b, n) == IF n = 0 \/ n >= Len(b) THEN b ELSE SubSeq(b, Len(b) - n + 1, Len(b))

\* A variant that leaves the final cut out: head, marker and tail as joined.
cap_prompt_bytes_keep_tail_uncut(prompt, max_bytes, tail_bytes) ==
    IF Len(prompt) <= max_bytes THEN prompt
    ELSE LET tail == Max(0, Min(tail_bytes, max_bytes \div 2))
             head == max_bytes - tail
         IN  decode_ignore(Prefix(prompt, head)) \o ElisionMarker \o
             decode_ignore(LastBytes(prompt, tail))

\* _cap_prompt_bytes_keep_tail(prompt, max_bytes, tail_bytes), max_bytes >= 0
cap_prompt_bytes_keep_tail(prompt, max_bytes, tail_bytes) ==
    IF Len(prompt) <= max_bytes THEN prompt
    ELSE LET tail == Max(0, Min(tail_bytes, max_bytes \div 2))
             head == max_bytes - tail
             head_s == decode_ignore(Prefix(prompt, head))
             tail_s == decode_ignore(LastBytes(prompt, tail))
         IN  llm_truncate_utf8_to_bytes(head_s \o ElisionMarker \o tail_s, max_bytes)

\* _apply_hints(prompt, lang) with LLM_LENGTH_HINT unset: LLM_STYLE "bullets"
\* appends the format hint, the empty style leaves the prompt alone.
apply_hints(prompt, style) ==
    IF style \in {"bullets", "bullet", "list"}
    THEN prompt \o LengthFormatPrefix \o FormatBullets
    ELSE prompt

----------------------------------------------------------------------------
(* Ask/be/services/llm_client.py: chat(), the shrink-and-retry loop        *)

\* shrink_factors = [1.0, 0.7, 0.5, 0.35, 0.25] if LLM_AUTOSHRINK else [1.0],
\* each factor as the fraction num/den.
shrink_factors(autoshrink) ==
    IF autoshrink
    THEN << [num |-> 1, den |-> 1], [num |-> 7, den |-> 10], [num |-> 1, den |-> 2],
            [num |-> 35, den |-> 100], [num |-> 1, den |-> 4] >>
    ELSE << [num |-> 1, den |-> 1] >>

\* cap = max(1500, int(PROMPT_MAX_BYTES * f)).  For the configured limits of
\* ChatConfigs the double product equals the exact one.
shrink_cap(f) == Max(1500, (PROMPT_MAX_BYTES * f.num) \div f.den)

\* tail = max(600, min(PROMPT_TAIL_BYTES, int(cap * 0.35)))
shrink_tail(cap) == Max(600, Min(PROMPT_TAIL_BYTES, (cap * 35) \div 100))

\* "what"
SampleQuestion == <<119, 104, 97, 116>>

\* The prompt argument: evidence text followed by the question block.
prompt_bytes == Rep(c_prompt[1], c_prompt[2]) \o ask_qline(SampleQuestion, "en")

\* hinted = _apply_hints(prompt, lang)
hinted == apply_hints(prompt_bytes, LLM_STYLE)

\* The byte cap and the tail size in force at the attempt with factor f: the
\* initial cap for f = 1.0, the shrunk ones below it.
attempt_cap(f) == IF f.num < f.den THEN shrink_cap(f) ELSE PROMPT_MAX_BYTES

attempt_tail(f) == IF f.num < f.den THEN shrink_tail(shrink_cap(f)) ELSE PROMPT_TAIL_BYTES

\* capped_try of the loop body
capped_try(f) == cap_prompt_bytes_keep_tail(hinted, attempt_cap(f), attempt_tail(f))

\* f"HTTP {status}"
http_error(status) ==
    CASE status = 400 -> "HTTP 400"
      [] status = 429 -> "HTTP 429"
      [] status = 500 -> "HTTP 500"

\* Non-2xx statuses the gateway may answer with.
ErrorStatuses == {400, 429, 500}

\* str(e) of the transport failures of httpx: refused connection, read timeout.
ExceptionTexts == {"All connection attempts failed", "ReadTimeout"}

\* "Context size exceeded"
ContextSizeExceeded == <<67, 111, 110, 116, 101, 120, 116, 32, 115, 105, 122, 101, 32, 101, 120, 99, 101, 101, 100, 101, 100>>

\* "bad request"
BadRequest == <<98, 97, 100, 32, 114, 101, 113, 117, 101, 115, 116>>

\* Response bodies of a non-2xx answer.
ErrorBodies == {ContextSizeExceeded, BadRequest}

\* The bodies with which a gateway says that the input exceeded its context.
ContextOverflowBodies == {ContextSizeExceeded}

\* str.lower() on ASCII letters.
lower(b) == [k \in DOMAIN b |-> IF b[k] \in 65..90 THEN b[k] + 32 ELSE b[k]]

\* "context size"
ContextSize == <<99, 111, 110, 116, 101, 120, 116, 32, 115, 105, 122, 101>>

\* "context size", "max context", "exceeds the available context",
\* "token limit", "too many tokens"
ContextPhrases ==
    { ContextSize,
      <<109, 97, 120, 32, 99, 111, 110, 116, 101, 120, 116>>,
      <<101, 120, 99, 101, 101, 100, 115, 32, 116, 104, 101, 32, 97, 118, 97, 105, 108, 97, 98, 108, 101, 32, 99, 111, 110, 116, 101, 120, 116>>,
      <<116, 111, 107, 101, 110, 32, 108, 105, 109, 105, 116>>,
      <<116, 111, 111, 32, 109, 97, 110, 121, 32, 116, 111, 107, 101, 110, 115>> }

\* A variant whose phrase list misses "context size".
is_context_size_error_narrow(resp_text) ==
    \E p \in ContextPhrases \ {ContextSize} : Contains(lower(resp_text), p)

is_context_size_error(resp_text) == \E p \in ContextPhrases : Contains(lower(resp_text), p)

\* A variant that retries on every HTTP 400, whatever its body.
retries_after_any_400(status, resp_text, i, factors) ==
    status = 400 /\ factors[i] # factors[Len(factors)]

\* A variant that retries on every status error.
retries_after_any_status(status, resp_text, i, factors) ==
    factors[i] # factors[Len(factors)]

\* chat(): the statement `if status == 400 and _is_context_size_error(...)
\* and f != shrink_factors[-1]: continue`
retries_after(status, resp_text, i, factors) ==
    status = 400 /\ is_context_size_error(resp_text) /\ factors[i] # factors[Len(factors)]

\* The prompt of the request posted last: capped_try at the attempt c_log ends with.
c_payload ==
    IF c_log = <<>> THEN <<>>
    ELSE capped_try(shrink_factors(LLM_AUTOSHRINK)[c_log[Len(c_log)].i])

NoResult == [reply |-> "", returned |-> FALSE, error |-> "", attempt |-> 0]

\* The gateway answers the in-flight request with `outcome` when its
\* behaviour allows it: a threshold gateway answers 400 "context size
\* exceeded" to a payload above T bytes and 200 with text otherwise, an
\* unconstrained gateway answers anything.
GatewayAllows(outcome) ==
    \/ gateway.mode = "any"
    \/ /\ gateway.mode = "threshold"
       /\ IF Len(c_payload) > gateway.T
          THEN outcome = [kind |-> "status", status |-> 400, body |-> ContextSizeExceeded,
                          text |-> ""]
          ELSE outcome = [kind |-> "ok", status |-> 200, body |-> <<>>, text |-> "text"]

\* chat(prompt=...) is called: the loop starts at the first factor.
ChatCall ==
    /\ c_pc = "idle"
    /\ c_pc' = "loop"
    /\ c_i' = 1
    /\ UNCHANGED <<c_prompt, c_log, c_result, c_last_err, gateway,
                   PROMPT_MAX_BYTES, PROMPT_TAIL_BYTES, LLM_AUTOSHRINK, LLM_STYLE>>
    /\ UNCHANGED notChatVars

\* Loop head: the next factor's payload is cut from the hinted prompt and
\* posted (r = await _post_prompt(capped_try, ...)); after the last factor
\* the function returns the final failure result.
ChatPost ==
    /\ c_pc = "loop"
    /\ LET factors == shrink_factors(LLM_AUTOSHRINK)
       IN  IF c_i <= Len(factors)
           THEN /\ c_log' = Append(c_log, [i |-> c_i, bytes |-> Len(capped_try(factors[c_i])),
                                           kind |-> "inflight", status |-> 0, body |-> <<>>,
                                           text |-> ""])
                /\ c_pc' = "inflight"
                /\ UNCHANGED c_result
           ELSE /\ c_result' = [reply |-> "", returned |-> TRUE, attempt |-> 0,
                                error |-> IF c_last_err # "" THEN c_last_err
                                          ELSE "context_too_large"]
                /\ c_pc' = "done"
                /\ UNCHANGED c_log
    /\ UNCHANGED <<c_prompt, c_i, c_last_err, gateway,
                   PROMPT_MAX_BYTES, PROMPT_TAIL_BYTES, LLM_AUTOSHRINK, LLM_STYLE>>
    /\ UNCHANGED notChatVars

\* The log with the answer to the request in flight filled in.
Logged(outcome) ==
    [c_log EXCEPT ![Len(c_log)] =
        [i |-> @.i, bytes |-> @.bytes, kind |-> outcome.kind, status |-> outcome.status,
         body |-> outcome.body, text |-> outcome.text]]

\* 2xx: text, used = _extract_text_and_tokens(r); return {"reply": text, ...}.
\* The reply text is "" for a blank body; a non-blank reply is tagged with
\* the attempt that received it.
ChatRecvOk ==
    /\ c_pc = "inflight"
    /\ \E text \in {"text", ""} :
          LET outcome == [kind |-> "ok", status |-> 200, body |-> <<>>, text |-> text]
          IN  /\ GatewayAllows(outcome)
              /\ c_result' = [reply |-> text, returned |-> TRUE, error |-> "",
                              attempt |-> c_i]
              /\ c_log' = Logged(outcome)
    /\ c_pc' = "done"
    /\ UNCHANGED <<c_prompt, c_i, c_last_err, gateway,
                   PROMPT_MAX_BYTES, PROMPT_TAIL_BYTES, LLM_AUTOSHRINK, LLM_STYLE>>
    /\ UNCHANGED notChatVars

\* r.raise_for_status() raised httpx.HTTPStatusError.
ChatRecvStatusError ==
    /\ c_pc = "inflight"
    /\ \E status \in ErrorStatuses, body \in ErrorBodies :
          /\ GatewayAllows([kind |-> "status", status |-> status, body |-> body, text |-> ""])
          /\ c_last_err' = http_error(status)
          /\ c_log' = Logged([kind |-> "status", status |-> status, body |-> body, text |-> ""])
          /\ IF retries_after(status, body, c_i, shrink_factors(LLM_AUTOSHRINK))
             THEN /\ c_i' = c_i + 1
                  /\ c_pc' = "loop"
                  /\ UNCHANGED c_result
             ELSE /\ c_result' = [reply |-> "", returned |-> TRUE,
                                  error |-> http_error(status), attempt |-> c_i]
                  /\ c_pc' = "done"
                  /\ UNCHANGED c_i
    /\ UNCHANGED <<c_prompt, gateway,
                   PROMPT_MAX_BYTES, PROMPT_TAIL_BYTES, LLM_AUTOSHRINK, LLM_STYLE>>
    /\ UNCHANGED notChatVars

\* _post_prompt raised anything else: a transport error or a timeout.
ChatRecvException ==
    /\ c_pc = "inflight"
    /\ \E e \in ExceptionTexts :
          /\ GatewayAllows([kind |-> "exception", status |-> 0, body |-> <<>>, text |-> e])
          /\ c_last_err' = e
          /\ c_log' = Logged([kind |-> "exception", status |-> 0, body |-> <<>>, text |-> e])
          /\ c_result' = [reply |-> "", returned |-> TRUE, error |-> e, attempt |-> c_i]
    /\ c_pc' = "done"
    /\ UNCHANGED <<c_prompt, c_i, gateway,
                   PROMPT_MAX_BYTES, PROMPT_TAIL_BYTES, LLM_AUTOSHRINK, LLM_STYLE>>
    /\ UNCHANGED notChatVars

----------------------------------------------------------------------------
(* SpecChat: one chat() call against a gateway, for every configuration,   *)
(* prompt and gateway behaviour drawn in Init                              *)

\* Prompt lengths are swept over base .. base + MaxChatPad characters.
MaxChatPad == 1

\* (PROMPT_MAX_BYTES, PROMPT_TAIL_BYTES) as configured: the defaults, a limit
\* below the 1500-byte floor of the shrunk caps, and a short tail.
ChatConfigs ==
    { [max |-> 9000, tail |-> 2200], [max |-> 1000, tail |-> 2200], [max |-> 2000, tail |-> 300] }

\* Evidence part of a prompt as (unit, length in characters): "x" or the
\* Devanagari letter KA, repeated; the question block follows it.
ChatPromptShapes ==
    { <<<<120>>, 100>>, <<<<120>>, 1700>>, <<<<120>>, 9500>>,
      <<<<224, 164, 149>>, 600>>, <<<<224, 164, 149>>, 3200>> }

ChatPrompts == {<<sh[1], sh[2] + d>> : sh \in ChatPromptShapes, d \in 0..MaxChatPad}

\* Thresholds T of the simulated gateway, in bytes.
Thresholds == {1400, 1990, 4600, 7000, 20000}

Gateways == {[mode |-> "any", T |-> 0]} \cup {[mode |-> "threshold", T |-> t] : t \in Thresholds}

InitChat ==
    /\ \E c \in ChatConfigs : PROMPT_MAX_BYTES = c.max /\ PROMPT_TAIL_BYTES = c.tail
    /\ LLM_AUTOSHRINK \in BOOLEAN
    /\ LLM_STYLE \in {"", "bullets"}
    /\ c_prompt \in ChatPrompts
    /\ gateway \in Gateways
    /\ c_pc = "idle"
    /\ c_i = 0
    /\ c_log = <<>>
    /\ c_result = NoResult
    /\ c_last_err = ""
    /\ PromptIdle /\ AskIdle /\ RetrIdle /\ SearchIdle /\ AnswererIdle /\ SummIdle /\ GaskIdle

NextChat == ChatCall \/ ChatPost \/ ChatRecvOk \/ ChatRecvStatusError \/ ChatRecvException

SpecChat == InitChat /\ [][NextChat]_vars

----------------------------------------------------------------------------
(* Claims about chat()                                                     *)

\* The gateway answered log entry e with HTTP 400 context-overflow.
IsContextOverflow(e) ==
    e.kind = "status" /\ e.status = 400 /\ e.body \in ContextOverflowBodies

\* The gateway answered log entry e with a transport failure or timeout, or
\* with a non-2xx status that is not an HTTP 400 context-overflow.
IsFatal(e) == e.kind = "exception" \/ (e.kind = "status" /\ ~IsContextOverflow(e))

\* The five shrink factors of chat().
AllFactors == shrink_factors(TRUE)

\* The attempts, among the given factors, whose payload a threshold gateway accepts.
Fitting(factors) == {k \in DOMAIN factors : Len(capped_try(factors[k])) <= gateway.T}

FirstOf(S) == CHOOSE k \in S : \A m \in S : k <= m

\* What the claim expects of a finished call against a threshold gateway
\* when the given factors are the ones to try: requests in factor order, the
\* reply of the first fitting attempt and no error, a failure result only
\* if no attempt fits.
ShrinkOutcome(factors) ==
    /\ \A j \in DOMAIN c_log : c_log[j].i = j /\ c_log[j].bytes = Len(capped_try(factors[j]))
    /\ IF Fitting(factors) = {}
       THEN c_result.error # "" /\ Len(c_log) = Len(factors)
       ELSE /\ c_result.error = ""
            /\ c_result.reply # ""
            /\ c_result.attempt = FirstOf(Fitting(factors))
            /\ Len(c_log) = FirstOf(Fitting(factors))

\* C7 (as claimed): against a threshold gateway chat() tries the factors
\* 1.0, 0.7, 0.5, 0.35, 0.25 in order, returns the reply of the first attempt
\* whose payload is at most T bytes, and fails only if no factor fits.
C7_Original ==
    (c_pc = "done" /\ gateway.mode = "threshold") => ShrinkOutcome(AllFactors)

\* C7 (amended): the same, when LLM_AUTOSHRINK is enabled.
C7_ShrinkUntilFits ==
    (c_pc = "done" /\ gateway.mode = "threshold" /\ LLM_AUTOSHRINK)
        => ShrinkOutcome(AllFactors)

\* C7 witness: the full size and the 0.7 attempt overflowed and the call
\* returned the reply to the 0.5 attempt.
C7_Witness ==
    /\ c_pc = "done" /\ gateway.mode = "threshold" /\ LLM_AUTOSHRINK
    /\ c_result.error = "" /\ c_result.reply # "" /\ c_result.attempt = 3
    /\ Len(c_log) = 3 /\ c_log[1].bytes > gateway.T /\ c_log[3].bytes <= gateway.T

C9_ExhaustedReason ==
    (/\ c_pc = "done"
     /\ Len(c_log) = Len(AllFactors)
     /\ \A j \in DOMAIN c_log : IsContextOverflow(c_log[j]))
        => c_result.error = "context_too_large"

\* The tail size _cap_prompt_bytes_keep_tail preserves at the last attempt posted.
LastFactor == shrink_factors(LLM_AUTOSHRINK)[c_log[Len(c_log)].i]

PreservedTail == Max(0, Min(attempt_tail(LastFactor), attempt_cap(LastFactor) \div 2))

\* C10: whenever the original prompt exceeds an attempt's byte cap, the
\* payload of that attempt ends with the original prompt's final tail bytes
\* (the whole characters among them), the elision marker before them.
C10_TailVerbatim ==
    (c_log # <<>> /\ Len(hinted) > attempt_cap(LastFactor) /\ PreservedTail > 0)
        => EndsWith(c_payload,
                    ElisionMarker \o decode_ignore(LastBytes(hinted, PreservedTail)))

----------------------------------------------------------------------------
(* Further claims about chat()                                             *)

\* The byte cap in force at the attempt logged at position j.
CapAt(j) == attempt_cap(shrink_factors(LLM_AUTOSHRINK)[c_log[j].i])

\* C29: across the attempts of one chat() call the byte cap never increases:
\* the cap used at each later shrink factor is at most the cap used at every
\* earlier attempt, the initial full-size cap included, and a retry after a
\* context overflow never sends a larger payload than the attempt that
\* overflowed.
C29_CapNeverIncreases ==
    \A j, k \in DOMAIN c_log :
        j < k => /\ CapAt(k) <= CapAt(j)
                 /\ c_log[k].bytes <= c_log[j].bytes

\* From the second attempt on the cap does not increase.
ShrunkCapsNeverIncrease ==
    \A j, k \in DOMAIN c_log : (1 < j /\ j < k) => CapAt(k) <= CapAt(j)

\* With PROMPT_MAX_BYTES at or above the 1500-byte floor of the shrunk caps
\* neither the cap nor the payload grows.
CapNeverIncreasesAboveFloor ==
    PROMPT_MAX_BYTES >= 1500 =>
        \A j, k \in DOMAIN c_log :
            j < k => CapAt(k) <= CapAt(j) /\ c_log[k].bytes <= c_log[j].bytes

\* chat() under the scheduling of the event loop: the coroutine is resumed
\* whenever it can take a step, and every request ends, with an answer or
\* with the timeout of _post_prompt.  A step is possible exactly until the
\* call has returned, so weak fairness of the steps after ChatCall is written
\* with that enabling condition: either the call is done infinitely often or
\* steps keep being taken.
SpecChatLive ==
    /\ InitChat /\ [][NextChat]_vars
    /\ WF_vars(ChatCall)
    /\ ([]<>(c_pc = "done") \/ []<><<NextChat>>_vars)

\* The requests of the call so far: one per shrink factor in the order of
\* the factors, the first at the first factor; only the last can be in
\* flight, and every request before the last was answered with an HTTP 400
\* context overflow.
AttemptsSequential ==
    /\ Len(c_log) <= Len(shrink_factors(LLM_AUTOSHRINK))
    /\ Len(c_log) <= 5
    /\ ~LLM_AUTOSHRINK => Len(c_log) <= 1
    /\ \A j \in DOMAIN c_log : c_log[j].i = j
    /\ \A j \in DOMAIN c_log : c_log[j].kind = "inflight" => (j = Len(c_log) /\ c_pc = "inflight")
    /\ \A j \in 1..(Len(c_log) - 1) : IsContextOverflow(c_log[j])
    /\ c_pc = "done" => (c_result.returned /\ Len(c_log) >= 1)

\* C24: a chat() call sends at most one gateway request per shrink factor
\* (at most 5, exactly 1 when auto-shrink is disabled), never has two
\* requests in flight at once, issues the request for the next factor only
\* after the previous attempt was classified as context overflow, and always
\* returns a result.
C24_SequentialAttemptsAndReturn ==
    /\ []AttemptsSequential
    /\ <>(c_pc = "done" /\ c_result.returned)

\* C24 witness: the call returned after a request at each of the five factors.
C24_Witness ==
    /\ c_pc = "done" /\ c_result.returned
    /\ Len(c_log) = 5
    /\ \A j \in 1..4 : IsContextOverflow(c_log[j])

\* C24 witness without auto-shrink: one request, answered with a context
\* overflow, and the call returned.
SingleAttemptWitness ==
    /\ c_pc = "done" /\ ~LLM_AUTOSHRINK
    /\ Len(c_log) = 1 /\ IsContextOverflow(c_log[1])
----------------------------------------------------------------------------
(* Text operations of the answer path, on UTF-8 byte strings               *)

\* s.startswith(p)
StartsWith(s, p) == Len(s) >= Len(p) /\ SubSeq(s, 1, Len(p)) = p

\* s[n:] for 0 <= n, in bytes
DropBytes(s, n) == SubSeq(s, n + 1, Len(s))

\* s.find(needle) + 1: the position of the first occurrence, 0 when there is none.
Find(s, needle) ==
    LET m == Len(needle)
        at == {i \in 1..(Len(s) - m + 1) : SubSeq(s, i, i + m - 1) = needle}
    IN  IF at = {} THEN 0 ELSE CHOOSE i \in at : \A j \in at : i <= j

\* s[:n] in characters: the first n code points.  Character n + 1 starts
\* after byte n at the earliest.
TakeChars(s, n) ==
    LET leads == {i \in DOMAIN s : ~IsCont(s[i])}
    IN  IF Cardinality(leads) <= n THEN s
        ELSE LET cut == CHOOSE i \in {k \in leads : k > n} :
                                Cardinality({j \in leads : j < i}) = n
             IN  SubSeq(s, 1, cut - 1)

\* s.splitlines(), the line break being "\n"
RECURSIVE SplitLines(_)
SplitLines(s) ==
    IF s = <<>> THEN <<>>
    ELSE LET i == Find(s, <<10>>)
         IN  IF i = 0 THEN <<s>>
             ELSE <<SubSeq(s, 1, i - 1)>> \o SplitLines(DropBytes(s, i))

\* sep.join(parts)
RECURSIVE Join(_, _)
Join(parts, sep) ==
    IF parts = <<>> THEN <<>>
    ELSE IF Len(parts) = 1 THEN parts[1]
    ELSE parts[1] \o sep \o Join(Tail(parts), sep)

\* [x for x in seq if keep(x)] with keep given as the set of kept values' indices
RECURSIVE SelectIdx(_, _, _)
SelectIdx(seq, keep, i) ==
    IF i > Len(seq) THEN <<>>
    ELSE (IF i \in keep THEN <<seq[i]>> ELSE <<>>) \o SelectIdx(seq, keep, i + 1)

\* The maximal run of white space that ends just before position i starts here.
RECURSIVE SpaceRunStart(_, _)
SpaceRunStart(s, i) ==
    IF i > 1 /\ IsSpace(s[i - 1]) THEN SpaceRunStart(s, i - 1) ELSE i

\* The maximal run of white space that starts just after position j ends here.
RECURSIVE SpaceRunEnd(_, _)
SpaceRunEnd(s, j) ==
    IF j < Len(s) /\ IsSpace(s[j + 1]) THEN SpaceRunEnd(s, j + 1) ELSE j

\* html.escape of one byte: & < > " ' become entities
xml_entity(b) ==
    CASE b = 38 -> <<38, 97, 109, 112, 59>>
      [] b = 60 -> <<38, 108, 116, 59>>
      [] b = 62 -> <<38, 103, 116, 59>>
      [] b = 34 -> <<38, 113, 117, 111, 116, 59>>
      [] b = 39 -> <<38, 35, 120, 50, 55, 59>>
      [] OTHER -> <<b>>

\* html.escape of s[i..j], by halves
RECURSIVE xml_escape_range(_, _, _)
xml_escape_range(s, i, j) ==
    IF i > j THEN <<>>
    ELSE IF i = j THEN xml_entity(s[i])
    ELSE xml_escape_range(s, i, (i + j) \div 2) \o xml_escape_range(s, (i + j) \div 2 + 1, j)

\* html.escape(s)
xml_escape(s) == xml_escape_range(s, 1, Len(s))
----------------------------------------------------------------------------
(* String literals of the answer path, as UTF-8                            *)

\* "• " (answerer.py:170)
BulletPrefix == <<226, 128, 162, 32>>

\* "•"
BulletChar == <<226, 128, 162>>

\* "..." (answerer.py:168)
ThreeDots == <<46, 46, 46>>

\* ". " (answerer.py:166)
SentenceBreak == <<46, 32>>

\* "No clear answer found in the documents."
NoClearAnswerEn ==
    << 78, 111, 32, 99, 108, 101, 97, 114, 32, 97, 110, 115, 119, 101, 114, 32, 102, 111,
       117, 110, 100, 32, 105, 110, 32, 116, 104, 101, 32, 100, 111, 99, 117, 109, 101,
       110, 116, 115, 46 >>

\* The Hindi no-answer string of answerer.py:174.
NoClearAnswerHi ==
    << 224, 164, 166, 224, 164, 184, 224, 165, 141, 224, 164, 164, 224, 164, 190, 224, 164,
       181, 224, 165, 135, 224, 164, 156, 224, 164, 188, 224, 165, 139, 224, 164, 130, 32,
       224, 164, 174, 224, 165, 135, 224, 164, 130, 32, 224, 164, 184, 224, 165, 141, 224,
       164, 170, 224, 164, 183, 224, 165, 141, 224, 164, 159, 32, 224, 164, 137, 224, 164,
       164, 224, 165, 141, 224, 164, 164, 224, 164, 176, 32, 224, 164, 168, 224, 164, 185,
       224, 165, 128, 224, 164, 130, 32, 224, 164, 174, 224, 164, 191, 224, 164, 178, 224,
       164, 190, 224, 165, 164 >>

\* "source:"
SourceLower == <<115, 111, 117, 114, 99, 101, 58>>

\* "sources:"
SourcesLower == <<115, 111, 117, 114, 99, 101, 115, 58>>

\* "Sources: ["
SourcesOpen == <<83, 111, 117, 114, 99, 101, 115, 58, 32, 91>>

\* "; "
SourcesSep == <<59, 32>>

\* "I couldn’t find enough evidence in the documents to answer." (ask_router.py:214)
InsufficientEvidence ==
    << 73, 32, 99, 111, 117, 108, 100, 110, 226, 128, 153, 116, 32, 102, 105, 110, 100, 32,
       101, 110, 111, 117, 103, 104, 32, 101, 118, 105, 100, 101, 110, 99, 101, 32, 105,
       110, 32, 116, 104, 101, 32, 100, 111, 99, 117, 109, 101, 110, 116, 115, 32, 116,
       111, 32, 97, 110, 115, 119, 101, 114, 46 >>

\* "[doc", the start of a document tag, lower case
DocTagOpen == <<91, 100, 111, 99>>

\* "you are documind."
SysEchoLower ==
    <<121, 111, 117, 32, 97, 114, 101, 32, 100, 111, 99, 117, 109, 105, 110, 100, 46>>

\* "answer in english."
LangEchoEnLower ==
    <<97, 110, 115, 119, 101, 114, 32, 105, 110, 32, 101, 110, 103, 108, 105, 115, 104, 46>>

\* "answer in hindi."
LangEchoHiLower ==
    <<97, 110, 115, 119, 101, 114, 32, 105, 110, 32, 104, 105, 110, 100, 105, 46>>

\* "No evidence found in the documents." (wa_router.py:257)
NoEvidenceFound ==
    << 78, 111, 32, 101, 118, 105, 100, 101, 110, 99, 101, 32, 102, 111, 117, 110, 100, 32,
       105, 110, 32, 116, 104, 101, 32, 100, 111, 99, 117, 109, 101, 110, 116, 115, 46 >>

\* "🟣 LLM"
MarkerLLM == <<240, 159, 159, 163, 32, 76, 76, 77>>

\* "🟪 Local"
MarkerLocal == <<240, 159, 159, 170, 32, 76, 111, 99, 97, 108>>

\* "🟪 Local ⏱"
MarkerLocalFallback == <<240, 159, 159, 170, 32, 76, 111, 99, 97, 108, 32, 226, 143, 177>>

\* "Source: "
SourceTagPrefix == <<83, 111, 117, 114, 99, 101, 58, 32>>

\* "…"
Ellipsis == <<226, 128, 166>>

\* The opening of _render_twiml (wa_router.py:64).
TwimlOpen ==
    << 60, 63, 120, 109, 108, 32, 118, 101, 114, 115, 105, 111, 110, 61, 34, 49, 46, 48,
       34, 32, 101, 110, 99, 111, 100, 105, 110, 103, 61, 34, 85, 84, 70, 45, 56, 34, 63,
       62, 60, 82, 101, 115, 112, 111, 110, 115, 101, 62, 60, 77, 101, 115, 115, 97, 103,
       101, 62 >>

\* "</Message></Response>"
TwimlClose ==
    << 60, 47, 77, 101, 115, 115, 97, 103, 101, 62, 60, 47, 82, 101, 115, 112, 111, 110,
       115, 101, 62 >>

\* "<Response><Message>"
ForwardOpen ==
    << 60, 82, 101, 115, 112, 111, 110, 115, 101, 62, 60, 77, 101, 115, 115, 97, 103, 101,
       62 >>

\* "Local summary unavailable."
LocalSummaryUnavailable ==
    << 76, 111, 99, 97, 108, 32, 115, 117, 109, 109, 97, 114, 121, 32, 117, 110, 97, 118,
       97, 105, 108, 97, 98, 108, 101, 46 >>

\* "Local error: "
LocalErrorPrefix == <<76, 111, 99, 97, 108, 32, 101, 114, 114, 111, 114, 58, 32>>

\* str(e) of httpx.ConnectError: "All connection attempts failed"
ConnectErrorText ==
    << 65, 108, 108, 32, 99, 111, 110, 110, 101, 99, 116, 105, 111, 110, 32, 97, 116, 116,
       101, 109, 112, 116, 115, 32, 102, 97, 105, 108, 101, 100 >>

\* str(e) of httpx.HTTPStatusError starts "Server error '502 Bad Gateway'"
StatusErrorText ==
    << 83, 101, 114, 118, 101, 114, 32, 101, 114, 114, 111, 114, 32, 39, 53, 48, 50, 32,
       66, 97, 100, 32, 71, 97, 116, 101, 119, 97, 121, 39 >>

\* help_msg of the webhook (wa_router.py:233-238)
HelpMessage ==
    << 83, 101, 110, 100, 32, 97, 32, 113, 117, 101, 115, 116, 105, 111, 110, 32, 40, 101,
       46, 103, 46, 44, 32, 39, 98, 101, 110, 101, 102, 105, 116, 115, 32, 115, 117, 98,
       115, 105, 100, 121, 39, 41, 46, 10, 69, 110, 103, 105, 110, 101, 58, 32, 39, 108,
       108, 109, 32, 60, 113, 62, 39, 32, 102, 111, 114, 32, 76, 76, 77, 44, 32, 39, 108,
       111, 99, 97, 108, 32, 60, 113, 62, 39, 32, 102, 111, 114, 32, 76, 111, 99, 97, 108,
       46, 32, 68, 101, 102, 97, 117, 108, 116, 32, 105, 115, 32, 97, 117, 116, 111, 32,
       40, 76, 76, 77, 226, 134, 146, 102, 97, 108, 108, 98, 97, 99, 107, 41, 46, 10, 79,
       118, 101, 114, 114, 105, 100, 101, 115, 58, 32, 116, 61, 60, 116, 111, 107, 101,
       110, 115, 62, 32, 115, 61, 60, 115, 101, 99, 111, 110, 100, 115, 62, 32, 107, 61,
       60, 116, 111, 112, 107, 62, 32, 111, 114, 32, 39, 102, 97, 115, 116, 39, 46, 32, 69,
       120, 97, 109, 112, 108, 101, 58, 32, 39, 108, 108, 109, 32, 116, 61, 51, 50, 32,
       115, 61, 49, 50, 32, 98, 101, 110, 101, 102, 105, 116, 115, 63, 39, 10, 76, 97, 110,
       103, 117, 97, 103, 101, 32, 97, 117, 116, 111, 45, 100, 101, 116, 101, 99, 116, 101,
       100, 59, 32, 105, 110, 108, 105, 110, 101, 32, 39, 108, 97, 110, 103, 32, 104, 105,
       58, 32, 60, 113, 62, 39, 32, 111, 114, 32, 39, 108, 97, 110, 103, 32, 101, 110, 58,
       32, 60, 113, 62, 39, 32, 116, 111, 32, 102, 111, 114, 99, 101, 46 >>

\* "llm"
EngineLlm == <<108, 108, 109>>

\* "local"
EngineLocal == <<108, 111, 99, 97, 108>>

\* "model"
ModeModel == <<109, 111, 100, 101, 108>>

\* "remote"
ModeRemote == <<114, 101, 109, 111, 116, 101>>

\* "gateway"
ModeGateway == <<103, 97, 116, 101, 119, 97, 121>>

\* "LLM (longer)", a mode label of the web client
ModeLlmLonger == <<76, 76, 77, 32, 40, 108, 111, 110, 103, 101, 114, 41>>

\* "  (t="
MarkerTokens == <<32, 32, 40, 116, 61>>

\* ", s="
MarkerSeconds == <<44, 32, 115, 61>>

\* "s)\n"
MarkerClose == <<115, 41, 10>>

\* "llm what"
WaTextLlm == <<108, 108, 109, 32, 119, 104, 97, 116>>

\* "local: what"
WaTextLocal == <<108, 111, 99, 97, 108, 58, 32, 119, 104, 97, 116>>

\* "d1"
DocD1 == <<100, 49>>

\* "d2"
DocD2 == <<100, 50>>

\* "d3"
DocD3 == <<100, 51>>

\* "Leave is 12 days. Apply early."
TextLeave ==
    << 76, 101, 97, 118, 101, 32, 105, 115, 32, 49, 50, 32, 100, 97, 121, 115, 46, 32, 65,
       112, 112, 108, 121, 32, 101, 97, 114, 108, 121, 46 >>

\* "  \n"
TextBlank == <<32, 32, 10>>

\* A Hindi passage: two clauses, then ". " and a third.
TextHindi ==
    << 224, 164, 155, 224, 165, 129, 224, 164, 159, 224, 165, 141, 224, 164, 159, 224, 165,
       128, 32, 49, 50, 32, 224, 164, 166, 224, 164, 191, 224, 164, 168, 224, 165, 164, 32,
       224, 164, 134, 224, 164, 181, 224, 165, 135, 224, 164, 166, 224, 164, 168, 32, 224,
       164, 149, 224, 164, 176, 224, 165, 135, 224, 164, 130, 46, 32, 224, 164, 172, 224,
       164, 190, 224, 164, 166, 32, 224, 164, 174, 224, 165, 135, 224, 164, 130 >>

\* "See [DOC#2] for rules. More"
TextTagged ==
    << 83, 101, 101, 32, 91, 68, 79, 67, 35, 50, 93, 32, 102, 111, 114, 32, 114, 117, 108,
       101, 115, 46, 32, 77, 111, 114, 101 >>

\* "Twelve days [DOC#1]"
ReplyTagged ==
    <<84, 119, 101, 108, 118, 101, 32, 100, 97, 121, 115, 32, 91, 68, 79, 67, 35, 49, 93>>

\* "You are DocuMind. Answer.\n1. Twelve days"
ReplyEcho ==
    << 89, 111, 117, 32, 97, 114, 101, 32, 68, 111, 99, 117, 77, 105, 110, 100, 46, 32, 65,
       110, 115, 119, 101, 114, 46, 10, 49, 46, 32, 84, 119, 101, 108, 118, 101, 32, 100,
       97, 121, 115 >>

\* "HTTP 502", the error chat() reports for status 502
Http502Text == <<72, 84, 84, 80, 32, 53, 48, 50>>

\* fixes of _fix_leading_trunc, in order: ("nd ", "and "), ("r ", "or "), ("pplying ", "applying "), ("griculture ", "agriculture "),
\* ("nterest ", "interest "), ("eneficiary ", "beneficiary "), ("cheme ", "Scheme "), ("oans ", "loans ")
LeadingFixes ==
    << <<<<110, 100, 32>>, <<97, 110, 100, 32>>>>,
       <<<<114, 32>>, <<111, 114, 32>>>>,
       <<<<112, 112, 108, 121, 105, 110, 103, 32>>, <<97, 112, 112, 108, 121, 105, 110, 103, 32>>>>,
       <<<<103, 114, 105, 99, 117, 108, 116, 117, 114, 101, 32>>, <<97, 103, 114, 105, 99, 117, 108, 116, 117, 114, 101, 32>>>>,
       <<<<110, 116, 101, 114, 101, 115, 116, 32>>, <<105, 110, 116, 101, 114, 101, 115, 116, 32>>>>,
       <<<<101, 110, 101, 102, 105, 99, 105, 97, 114, 121, 32>>, <<98, 101, 110, 101, 102, 105, 99, 105, 97, 114, 121, 32>>>>,
       <<<<99, 104, 101, 109, 101, 32>>, <<83, 99, 104, 101, 109, 101, 32>>>>,
       <<<<111, 97, 110, 115, 32>>, <<108, 111, 97, 110, 115, 32>>>> >>
----------------------------------------------------------------------------
(* Ask/be/services/answerer.py: the local answerer                         *)

\* _cap_passages: budget = int(9000 * max(10, min(percent_cap, 100)) / 100)
cap_budget(pc) == (9000 * Max(10, Min(pc, 100))) \div 100

RECURSIVE cap_loop(_, _, _, _)
cap_loop(ps, i, used, budget) ==
    IF i > Len(ps) THEN <<>>
    ELSE LET t == ps[i].text
             rem == budget - used
         IN  IF rem <= 0 THEN <<>>
             ELSE IF CharLen(t) > rem
                  THEN <<[ps[i] EXCEPT !.text = TakeChars(t, Max(200, rem))]>>
                  ELSE <<ps[i]>> \o cap_loop(ps, i + 1, used + CharLen(t), budget)

cap_passages(ps, pc) == cap_loop(ps, 1, 0, cap_budget(pc))

\* _group_citations: the documents in first-seen order, each with its sorted
\* distinct chunk indices, at most max_chunks_per_doc of them; the loop ends
\* once max_docs documents are listed.
RECURSIVE first_seen_docs(_, _, _)
first_seen_docs(ps, i, seen) ==
    IF i > Len(ps) THEN <<>>
    ELSE IF ps[i].doc_id \in seen THEN first_seen_docs(ps, i + 1, seen)
    ELSE <<ps[i].doc_id>> \o first_seen_docs(ps, i + 1, seen \cup {ps[i].doc_id})

\* sorted(S)[:n] of a set of integers
RECURSIVE sorted_prefix(_, _)
sorted_prefix(S, n) ==
    IF S = {} \/ n = 0 THEN <<>>
    ELSE LET m == CHOOSE x \in S : \A y \in S : x <= y
         IN  <<m>> \o sorted_prefix(S \ {m}, n - 1)

group_citations(ps) ==
    LET docs == first_seen_docs(ps, 1, {})
    IN  [d \in 1..Min(Len(docs), 3) |->
            [doc_id |-> docs[d],
             chunks |-> sorted_prefix({ps[i].chunk : i \in
                                          {j \in DOMAIN ps : ps[j].doc_id = docs[d]}}, 4)]]

\* ",".join(str(n) for n in chunks)
RECURSIVE join_numbers(_)
join_numbers(ns) ==
    IF ns = <<>> THEN <<>>
    ELSE IF Len(ns) = 1 THEN Digits(ns[1])
    ELSE Digits(ns[1]) \o <<44>> \o join_numbers(Tail(ns))

\* _sources_line: "Sources: [d1#0,12; d2#4]"
sources_line(ps) ==
    LET grouped == group_citations(ps)
        part(it) == IF it.chunks # <<>> THEN it.doc_id \o <<35>> \o join_numbers(it.chunks)
                    ELSE it.doc_id
    IN  IF grouped = <<>> THEN <<>>
        ELSE SourcesOpen \o Join([k \in DOMAIN grouped |-> part(grouped[k])], SourcesSep)
                 \o <<93>>

\* _confidence, in hundredths: round(min(0.9, 0.5 + 0.04 * min(len(passages), 10)), 2)
confidence(ps) == Min(90, 50 + 4 * Min(Len(ps), 10))

\* _postprocess_wa: right-strip each line, drop the lines that start with
\* "source:" or "sources:", drop empty lines, cut to 420 characters, append
\* the sources line when ASK_SHOW_SOURCES is set, cut to 480 characters.
postprocess_wa(text, ps, show_sources) ==
    LET lines == [k \in DOMAIN SplitLines(text) |-> RStrip(SplitLines(text)[k])]
        low(k) == strip(lower(lines[k]))
        keep == {k \in DOMAIN lines :
                    /\ ~StartsWith(low(k), SourceLower)
                    /\ ~StartsWith(low(k), SourcesLower)
                    /\ lines[k] # <<>>}
        body == RStrip(TakeChars(Join(SelectIdx(lines, keep, 1), <<10>>), 420))
        src == sources_line(ps)
        with_src == IF show_sources /\ src # <<>>
                    THEN strip(body \o (IF body # <<>> THEN <<10>> ELSE <<>>) \o src)
                    ELSE body
    IN  TakeChars(with_src, 480)

\* _fix_leading_trunc: the first fix whose "bad" prefix starts the
\* left-stripped, lower-cased text replaces that prefix.
fix_leading_trunc(s) ==
    IF s = <<>> THEN s
    ELSE LET x == LStrip(s)
             hits == {k \in DOMAIN LeadingFixes : StartsWith(lower(x), LeadingFixes[k][1])}
         IN  IF hits = {} THEN x
             ELSE LET k == CHOOSE h \in hits : \A g \in hits : h <= g
                  IN  LeadingFixes[k][2] \o DropBytes(x, Len(LeadingFixes[k][1]))

\* t.split(". ")[0], cut to 220 characters plus "..." when longer
first_sentence(t) ==
    LET i == Find(t, SentenceBreak)
        cut == IF i = 0 THEN t ELSE SubSeq(t, 1, i - 1)
    IN  IF CharLen(cut) > 220 THEN TakeChars(cut, 220) \o ThreeDots ELSE cut

\* A variant whose loop runs over the whole passage list.
RECURSIVE extract_bullets_all(_, _, _)
extract_bullets_all(ps, i, n) ==
    IF i > Len(ps) \/ n >= 4 THEN <<>>
    ELSE LET t == strip(ps[i].text)
         IN  IF t = <<>> THEN extract_bullets_all(ps, i + 1, n)
             ELSE <<BulletPrefix \o fix_leading_trunc(first_sentence(t))>>
                      \o extract_bullets_all(ps, i + 1, n + 1)

\* The loop of _local_extractive over passages[:4]: one bullet per passage
\* whose stripped text is not empty.
RECURSIVE extract_bullets(_, _, _)
extract_bullets(ps, i, n) ==
    IF i > Min(Len(ps), 4) \/ n >= 4 THEN <<>>
    ELSE LET t == strip(ps[i].text)
         IN  IF t = <<>> THEN extract_bullets(ps, i + 1, n)
             ELSE <<BulletPrefix \o fix_leading_trunc(first_sentence(t))>>
                      \o extract_bullets(ps, i + 1, n + 1)

local_extractive(ps, l) ==
    LET bullets == extract_bullets(ps, 1, 0)
    IN  IF bullets = <<>>
        THEN (IF lang_lower(l) # "hi" THEN NoClearAnswerEn ELSE NoClearAnswerHi)
        ELSE Join(bullets, <<10>>)

\* A variant that returns the bullets as _local_extractive built them.
generate_answer_raw_bullets(q, l, ps, pc, show_sources) ==
    LET capped == cap_passages(ps, pc)
    IN  IF ps = <<>>
        THEN [answer |-> IF lang_lower(l) # "hi" THEN NoClearAnswerEn ELSE NoClearAnswerHi,
              citations |-> <<>>, confidence |-> 0, grounded |-> FALSE, source |-> "local"]
        ELSE [answer |-> local_extractive(capped, l),
              citations |-> group_citations(capped), confidence |-> confidence(capped),
              grounded |-> TRUE, source |-> "local"]

\* generate_answer.  Line 16 imports call_llm from Ask.be.services.llm_client,
\* which defines no such name, so line 18 binds call_llm to None and the
\* condition of line 231 holds whatever ASK_USE_LLM is: a non-empty passage
\* list is always answered by the local extractive path (lines 232-249).
\* confidence is in hundredths.
generate_answer(q, l, ps, pc, show_sources) ==
    LET capped == cap_passages(ps, pc)
    IN  IF ps = <<>>
        THEN [answer |-> IF lang_lower(l) # "hi" THEN NoClearAnswerEn ELSE NoClearAnswerHi,
              citations |-> <<>>, confidence |-> 0, grounded |-> FALSE, source |-> "local"]
        ELSE [answer |-> postprocess_wa(local_extractive(capped, l), capped, show_sources),
              citations |-> group_citations(capped), confidence |-> confidence(capped),
              grounded |-> TRUE, source |-> "local"]
----------------------------------------------------------------------------
(* _sanitize of ask_router.py and wa_router.py, format_wa_reply, TwiML     *)

\* _DOC_TAG_CLOSED_RE.sub(" ", t): a tag that opens with "[DOC" (any case)
\* and runs to the next "]", with the white space around it, becomes one space.
RECURSIVE remove_closed_tags(_)
remove_closed_tags(s) ==
    LET i == Find(lower(s), DocTagOpen)
        j == IF i = 0 THEN 0 ELSE Find(DropBytes(s, i + 3), <<93>>)
    IN  IF i = 0 \/ j = 0 THEN s
        ELSE SubSeq(s, 1, SpaceRunStart(s, i) - 1) \o <<32>>
                 \o remove_closed_tags(DropBytes(s, SpaceRunEnd(s, i + 3 + j)))

\* _DOC_TAG_HALFOPEN_INLINE_RE.sub(" ", t): a tag that opens with "[DOC" and
\* is not closed is removed up to the end of its line, together with the
\* white space before it; white space directly after "[DOC" is part of the
\* tag, so the line meant is the one that white space ends in.
RECURSIVE remove_halfopen_tags(_)
remove_halfopen_tags(s) ==
    LET i == Find(lower(s), DocTagOpen)
        w == SpaceRunEnd(s, i + 3)
        nl == Find(DropBytes(s, w), <<10>>)
        e == IF nl = 0 THEN Len(s) ELSE w + nl - 1
    IN  IF i = 0 THEN s
        ELSE SubSeq(s, 1, SpaceRunStart(s, i) - 1) \o <<32>>
                 \o remove_halfopen_tags(DropBytes(s, e))

\* re.sub(r"^\s*PHRASE[^\n]*$", "", t) with MULTILINE and IGNORECASE, from
\* the line start p on: at a line start, white space (line breaks included)
\* followed by one of the phrases is removed up to the end of the phrase's line.
RECURSIVE remove_echo_lines(_, _, _)
remove_echo_lines(s, phrases, p) ==
    IF p > Len(s) THEN <<>>
    ELSE LET r == SpaceRunEnd(s, p - 1) + 1
             rest == DropBytes(s, r - 1)
             hit == \E ph \in phrases : StartsWith(lower(rest), ph)
             nl == Find(rest, <<10>>)
             e == IF nl = 0 THEN Len(s) ELSE r + nl - 2
             nlp == Find(DropBytes(s, p - 1), <<10>>)
         IN  IF hit
             THEN (IF e = Len(s) THEN <<>> ELSE <<10>> \o remove_echo_lines(s, phrases, e + 2))
             ELSE IF nlp = 0 THEN DropBytes(s, p - 1)
             ELSE SubSeq(s, p, p + nlp - 1) \o remove_echo_lines(s, phrases, p + nlp)

\* The length of the run of bytes in `set` that starts s.
RECURSIVE RunLength(_, _)
RunLength(s, set) ==
    IF s # <<>> /\ Head(s) \in set THEN 1 + RunLength(Tail(s), set) ELSE 0

\* Where the run of bytes of `set` that holds position i starts.
RECURSIVE RunStart(_, _, _)
RunStart(s, i, set) ==
    IF i > 1 /\ s[i - 1] \in set THEN RunStart(s, i - 1, set) ELSE i

\* What position i of s contributes to re.sub(run of at least `least` bytes
\* of `set`, replacement, s): its byte outside such a run, byte k of the
\* replacement at place k of such a run, nothing further into the run.
collapse_piece(s, i, set, least, replacement) ==
    LET a == RunStart(s, i, set)
        k == i - a + 1
    IN  IF s[i] \notin set \/ RunLength(DropBytes(s, a - 1), set) < least THEN <<s[i]>>
        ELSE IF k <= Len(replacement) THEN <<replacement[k]>>
        ELSE <<>>

\* The pieces of positions lo..hi, concatenated.
RECURSIVE collapse_range(_, _, _, _, _, _)
collapse_range(s, lo, hi, set, least, replacement) ==
    IF lo > hi THEN <<>>
    ELSE IF lo = hi THEN collapse_piece(s, lo, set, least, replacement)
    ELSE LET mid == (lo + hi) \div 2
         IN  collapse_range(s, lo, mid, set, least, replacement)
                 \o collapse_range(s, mid + 1, hi, set, least, replacement)

\* re.sub(run of at least `least` bytes of `set`, replacement, s), the
\* replacement being no longer than `least`
collapse_runs(s, set, least, replacement) ==
    collapse_range(s, 1, Len(s), set, least, replacement)

\* s.lstrip("•")
RECURSIVE lstrip_bullets(_)
lstrip_bullets(s) ==
    IF StartsWith(s, BulletChar) THEN lstrip_bullets(DropBytes(s, 3)) ELSE s

\* The bytes of the list-marker characters • - – — * that start s.
RECURSIVE marker_run(_)
marker_run(s) ==
    IF s = <<>> THEN 0
    ELSE IF Head(s) \in {45, 42} THEN 1 + marker_run(Tail(s))
    ELSE IF \/ StartsWith(s, BulletChar)
            \/ StartsWith(s, <<226, 128, 147>>)
            \/ StartsWith(s, <<226, 128, 148>>)
         THEN 3 + marker_run(DropBytes(s, 3))
    ELSE 0

IsDigit(b) == b >= 48 /\ b <= 57

IsLetter(b) == (b >= 65 /\ b <= 90) \/ (b >= 97 /\ b <= 122)

\* 1 when byte number k of s exists and is in the set, else 0
Opt(s, k, set) == IF k <= Len(s) /\ s[k] \in set THEN 1 ELSE 0

\* The length of the match of
\* (?:[•\-\–\—\*]+|\(?\d{1,3}\)?[.)]?|\(?[a-zA-Z]\)?[.)]?)\s+ at the start of
\* s, 0 when it does not match: a list marker and the white space after it.
list_marker_len(s) ==
    LET m1 == marker_run(s)
        o == Opt(s, 1, {40})
        d == Min(3, RunLength(DropBytes(s, o), 48..57))
        after2 == o + d + Opt(s, o + d + 1, {41})
        m2 == IF d = 0 THEN 0 ELSE after2 + Opt(s, after2 + 1, {46, 41})
        l == IF o + 1 <= Len(s) /\ IsLetter(s[o + 1]) THEN 1 ELSE 0
        after3 == o + l + Opt(s, o + l + 1, {41})
        m3 == IF l = 0 THEN 0 ELSE after3 + Opt(s, after3 + 1, {46, 41})
        spaces(m) == RunLength(DropBytes(s, m), {9, 10, 11, 12, 13, 32})
    IN  IF m1 > 0 /\ spaces(m1) > 0 THEN m1 + spaces(m1)
        ELSE IF m2 > 0 /\ spaces(m2) > 0 THEN m2 + spaces(m2)
        ELSE IF m3 > 0 /\ spaces(m3) > 0 THEN m3 + spaces(m3)
        ELSE 0

\* The body of the loop of _sanitize(for_mode="local") for one non-empty line.
bullet_line(s) ==
    IF StartsWith(s, BulletChar) THEN BulletPrefix \o LStrip(lstrip_bullets(s))
    ELSE IF list_marker_len(s) > 0 THEN BulletPrefix \o DropBytes(s, list_marker_len(s))
    ELSE s

local_lines(t) ==
    LET stripped == [k \in DOMAIN SplitLines(t) |-> strip(SplitLines(t)[k])]
        kept == SelectIdx(stripped, {k \in DOMAIN stripped : stripped[k] # <<>>}, 1)
    IN  Join([k \in DOMAIN kept |-> bullet_line(kept[k])], <<10>>)

\* _sanitize(text, for_mode=...) of ask_router.py
sanitize(text, for_mode) ==
    IF text = <<>> THEN <<>>
    ELSE LET t1 == remove_halfopen_tags(remove_closed_tags(text))
             t2 == remove_echo_lines(t1, {SysEchoLower}, 1)
             t3 == remove_echo_lines(t2, {LangEchoEnLower, LangEchoHiLower}, 1)
             t4 == collapse_runs(t3, {32, 9}, 2, <<32>>)
             t5 == collapse_runs(t4, {10}, 3, <<10, 10>>)
             t6 == IF for_mode = "local" THEN local_lines(t5) ELSE t5
         IN  strip(t6)

\* _sanitize(text) of wa_router.py: the same substitutions, no bullet pass
wa_sanitize(text) == sanitize(text, "llm")

\* c.get("chunks") or []
chunks_of(c) == IF "chunks" \in DOMAIN c THEN c.chunks ELSE <<>>

\* format_wa_reply(answer, citations) with max_len 600, max_sources 3,
\* max_chunks_per_source 4
format_wa_reply(answer, citations) ==
    LET h == strip(answer)
        header == IF CharLen(h) > 600 THEN TakeChars(h, 599) \o Ellipsis ELSE h
        tag(c) == LET chunks == SubSeq(chunks_of(c), 1, Min(4, Len(chunks_of(c))))
                  IN  IF chunks # <<>>
                      THEN <<91>> \o c.doc_id \o <<35>> \o join_numbers(chunks) \o <<93>>
                      ELSE <<91>> \o c.doc_id \o <<93>>
        sources == [k \in 1..Min(3, Len(citations)) |-> SourceTagPrefix \o tag(citations[k])]
    IN  Join(<<header>> \o sources, <<10>>)

\* _render_twiml(message)
render_twiml(message) == TwimlOpen \o xml_escape(message) \o TwimlClose
----------------------------------------------------------------------------
(* Ask/be/ask_router.py: _ask_answer_core                                  *)

\* _resolve_mode(req_mode, header_mode), use_llm being _env_true("ASK_USE_LLM", True)
resolve_mode(req_mode, header_mode, use_llm) ==
    LET txt == lower(strip(IF header_mode # <<>> THEN header_mode ELSE req_mode))
    IN  IF txt # <<>> /\ (Contains(txt, EngineLlm) \/ txt \in {ModeModel, ModeRemote, ModeGateway})
        THEN "llm"
        ELSE IF txt # <<>> /\ Contains(txt, EngineLocal) THEN "local"
        ELSE IF use_llm THEN "llm" ELSE "local"

\* fwd = passages[:evidence_k] with k = _cap(topk, 1, 50), evidence_k = _cap(evidence_k, 1, k)
ask_forwarded(ps, topk, evidence_k) ==
    SubSeq(ps, 1, Min(Len(ps), cap_int(evidence_k, 1, cap_int(topk, 1, 50))))

\* A variant that treats every evidence list as non-empty.
no_evidence_never(fwd) == FALSE

\* `if not fwd`
no_evidence(fwd) == fwd = <<>>

\* cites = [Citation(doc_id=p["doc_id"], chunks=[p["chunk"]]) for p in fwd]
ask_cites(fwd) ==
    [i \in DOMAIN fwd |-> [doc_id |-> fwd[i].doc_id, chunks |-> <<fwd[i].chunk>>]]

\* A response before anything was returned; a JSON response fills answer,
\* citations, confidence (in hundredths), grounded and source, a TwiML
\* response fills answer, marker, message and twiml.
NoResponse ==
    [kind |-> "none", answer |-> <<>>, citations |-> <<>>, confidence |-> 0,
     grounded |-> FALSE, source |-> "", marker |-> <<>>, message |-> <<>>, twiml |-> <<>>]

\* A variant that reports every answer as grounded.
AskResponse_grounded_always(answer, citations, conf, grounded, source) ==
    [NoResponse EXCEPT !.kind = "json", !.answer = answer, !.citations = citations,
                       !.confidence = conf, !.grounded = TRUE, !.source = source]

AskResponse(answer, citations, conf, grounded, source) ==
    [NoResponse EXCEPT !.kind = "json", !.answer = answer, !.citations = citations,
                       !.confidence = conf, !.grounded = grounded, !.source = source]

\* The outcomes of llm.chat(...) of services/llm_client.py: a text, stripped
\* (blank when the gateway sent none), raise_for_status() raising for a
\* non-2xx status, a transport error, a timeout (whose str() is empty).
LlmReplies == {ReplyTagged, ReplyEcho}

LlmOutcomes ==
    {[kind |-> "text", status |-> 200, text |-> r] : r \in LlmReplies}
        \cup {[kind |-> "blank", status |-> 200, text |-> <<>>],
              [kind |-> "status", status |-> 502, text |-> StatusErrorText],
              [kind |-> "exception", status |-> 0, text |-> ConnectErrorText],
              [kind |-> "timeout", status |-> 0, text |-> <<>>]}

\* llm.chat(...) raised: lines 134 (raise_for_status) and 132 (transport) of
\* services/llm_client.py
llm_raised(o) == o.kind \in {"status", "exception", "timeout"}

\* A variant that takes every reply for usable text.
llm_reply_unusable_never(text) == FALSE

\* `if not isinstance(text, str) or not text.strip()`
llm_reply_unusable(text) == strip(text) = <<>>

Upstream(callee, o) ==
    [callee |-> callee, kind |-> o.kind, status |-> o.status, text |-> o.text]

\* A request reaches POST /ask/answer: the mode is resolved and retrieval starts.
AskAnswerCall ==
    /\ a_req.entry = "ask" /\ a_pc = "idle"
    /\ a_pc' = "retrieving"
    /\ UNCHANGED <<a_req, a_cfg, a_retrieved, a_fwd, a_calls, a_upstream, a_response,
                   f_pc, f_reply>>
    /\ UNCHANGED notAskVars

\* _retrieve_hybrid returned ps; lines 208-256: no evidence ends the query
\* with the fixed text, local mode answers with _generate_answer, the LLM
\* path obtains the shared client (get_llm() raises when no base URL is
\* configured) and calls llm.chat.
AskRetrieved(ps) ==
    /\ a_req.entry = "ask" /\ a_pc = "retrieving"
    /\ LET mode == resolve_mode(a_req.mode, a_req.header_mode, a_cfg.use_llm)
           fwd == ask_forwarded(ps, a_req.topk, a_req.evidence_k)
           g == generate_answer(SampleQuestion, a_req.lang, fwd, a_req.percent_cap,
                                a_cfg.show_sources)
       IN  /\ a_retrieved' = ps
           /\ a_fwd' = fwd
           /\ IF no_evidence(fwd)
              THEN /\ a_response' = AskResponse(InsufficientEvidence, <<>>, 0, FALSE, mode)
                   /\ a_pc' = "done"
                   /\ UNCHANGED a_calls
              ELSE IF mode = "local"
              THEN /\ a_response' = AskResponse(sanitize(g.answer, "local"), ask_cites(fwd),
                                                g.confidence, g.grounded, "local")
                   /\ a_calls' = [a_calls EXCEPT !.gen = @ + 1]
                   /\ a_pc' = "done"
              ELSE IF ~a_cfg.llm_base_set
              THEN /\ a_pc' = "raised"
                   /\ UNCHANGED <<a_response, a_calls>>
              ELSE /\ a_pc' = "llm_wait"
                   /\ a_calls' = [a_calls EXCEPT !.llm = @ + 1]
                   /\ UNCHANGED a_response
    /\ UNCHANGED <<a_req, a_cfg, a_upstream, f_pc, f_reply>>
    /\ UNCHANGED notAskVars

\* llm.chat returned or raised; lines 274-307: a raise and a blank reply
\* fall back to _generate_answer with source "local".
AskLlmReturn(o) ==
    /\ a_req.entry = "ask" /\ a_pc = "llm_wait"
    /\ LET failed == llm_raised(o) \/ llm_reply_unusable(o.text)
           g == generate_answer(SampleQuestion, a_req.lang, a_fwd, a_req.percent_cap,
                                a_cfg.show_sources)
           source_flag == IF failed THEN "local" ELSE "llm"
           text == IF failed THEN g.answer ELSE o.text
       IN  /\ a_response' = AskResponse(sanitize(text, source_flag), ask_cites(a_fwd), 90, TRUE,
                                        source_flag)
           /\ a_calls' = IF failed THEN [a_calls EXCEPT !.gen = @ + 1] ELSE a_calls
    /\ a_upstream' = Append(a_upstream, Upstream("llm", o))
    /\ a_pc' = "done"
    /\ UNCHANGED <<a_req, a_cfg, a_retrieved, a_fwd, f_pc, f_reply>>
    /\ UNCHANGED notAskVars

----------------------------------------------------------------------------
(* Ask/be/wa_router.py: webhook                                            *)

\* WA_TOPK, WA_PERCENT_CAP, WA_LLM_MAX_TOKENS and WA_LLM_TIMEOUT_MS / 1000 as
\* defaulted at lines 39-44
WA_TOPK == 6

WA_PERCENT_CAP == 60

WA_LLM_MAX_TOKENS == 36

WA_LLM_TIMEOUT_S == 15

\* _parse_engine_and_overrides for a one-line message without flags:
\* _ENGINE_RE takes a leading "llm" or "local" (any case) as the engine.
wa_engine(text) ==
    IF StartsWith(lower(strip(text)), EngineLlm) THEN "llm"
    ELSE IF StartsWith(lower(strip(text)), EngineLocal) THEN "local"
    ELSE "auto"

\* The question: what follows the engine word, white space and one ":" or "-".
wa_question(text) ==
    LET t == strip(text)
        rest == IF wa_engine(text) = "llm" THEN DropBytes(t, Len(EngineLlm))
                ELSE IF wa_engine(text) = "local" THEN DropBytes(t, Len(EngineLocal))
                ELSE t
        r1 == LStrip(rest)
        r2 == IF wa_engine(text) # "auto" /\ r1 # <<>> /\ Head(r1) \in {58, 45}
              THEN Tail(r1) ELSE r1
    IN  strip(r2)

\* cites = [{"doc_id": ..., "chunk": ...} for p in fwd]
wa_cites(fwd) == [i \in DOMAIN fwd |-> [doc_id |-> fwd[i].doc_id, chunk |-> fwd[i].chunk]]

\* reply = f"{marker}  (t={tok}, s={int(tmo_ms/1000)}s)\n{body}"
wa_reply(marker, answer_text, cites) ==
    marker \o MarkerTokens \o Digits(Max(8, WA_LLM_MAX_TOKENS)) \o MarkerSeconds
        \o Digits(Max(3000, WA_LLM_TIMEOUT_S * 1000) \div 1000) \o MarkerClose
        \o format_wa_reply(wa_sanitize(answer_text), cites)

TwimlResponse(marker, answer_text, message) ==
    [NoResponse EXCEPT !.kind = "twiml", !.answer = answer_text, !.marker = marker,
                       !.message = message, !.twiml = render_twiml(message)]

\* The dicts chat() of Ask/be/services/llm_client.py returns: a reply
\* (stripped, "" when blank), or an error "HTTP <status>" or str(e), which is
\* empty for a timeout.
ChatOutcomes ==
    {[kind |-> "text", status |-> 200, text |-> r, reply |-> r, error |-> <<>>] :
         r \in LlmReplies}
        \cup {[kind |-> "blank", status |-> 200, text |-> <<>>, reply |-> <<>>, error |-> <<>>],
              [kind |-> "status", status |-> 502, text |-> Http502Text, reply |-> <<>>,
               error |-> Http502Text],
              [kind |-> "exception", status |-> 0, text |-> ConnectErrorText, reply |-> <<>>,
               error |-> ConnectErrorText],
              [kind |-> "timeout", status |-> 0, text |-> <<>>, reply |-> <<>>, error |-> <<>>]}

\* Lines 295-300: an error result and a blank reply raise RuntimeError.
chat_failed(out) == out.error # <<>> \/ strip(out.reply) = <<>>

\* A message reaches POST /api/wa/webhook, directly or forwarded by the
\* gateway: an empty text is answered with the help message, otherwise the
\* engine and the question are parsed and retrieval starts.
WaWebhookCall ==
    /\ a_req.entry = "wa" \/ (a_req.entry = "fwd" /\ f_pc = "posted")
    /\ a_pc = "idle"
    /\ IF strip(a_req.mode) = <<>>
       THEN /\ a_response' = TwimlResponse(<<>>, <<>>, HelpMessage)
            /\ a_pc' = "done"
       ELSE /\ a_pc' = "retrieving"
            /\ UNCHANGED a_response
    /\ UNCHANGED <<a_req, a_cfg, a_retrieved, a_fwd, a_calls, a_upstream, f_pc, f_reply>>
    /\ UNCHANGED notAskVars

\* retrieve_hybrid returned ps; lines 255-293.
WaRetrieved(ps) ==
    /\ a_req.entry \in {"wa", "fwd"} /\ a_pc = "retrieving"
    /\ LET k == Min(12, Max(1, WA_TOPK))
           fwd == SubSeq(ps, 1, Min(k, Len(ps)))
           g == generate_answer(wa_question(a_req.mode), a_req.lang, fwd, WA_PERCENT_CAP,
                                a_cfg.show_sources)
       IN  /\ a_retrieved' = ps
           /\ a_fwd' = fwd
           /\ IF fwd = <<>>
              THEN /\ a_response' = TwimlResponse(<<>>, <<>>, NoEvidenceFound)
                   /\ a_pc' = "done"
                   /\ UNCHANGED a_calls
              ELSE IF wa_engine(a_req.mode) = "local"
              THEN /\ a_response' = TwimlResponse(MarkerLocal, g.answer,
                                        wa_reply(MarkerLocal, g.answer, wa_cites(fwd)))
                   /\ a_calls' = [a_calls EXCEPT !.gen = @ + 1]
                   /\ a_pc' = "done"
              ELSE /\ a_pc' = "llm_wait"
                   /\ a_calls' = [a_calls EXCEPT !.llm = @ + 1]
                   /\ UNCHANGED a_response
    /\ UNCHANGED <<a_req, a_cfg, a_upstream, f_pc, f_reply>>
    /\ UNCHANGED notAskVars

\* _llm_chat returned out; lines 295-315.
WaLlmReturn(out) ==
    /\ a_req.entry \in {"wa", "fwd"} /\ a_pc = "llm_wait"
    /\ LET g == generate_answer(wa_question(a_req.mode), a_req.lang, a_fwd, WA_PERCENT_CAP,
                                a_cfg.show_sources)
           marker == IF chat_failed(out) THEN MarkerLocalFallback ELSE MarkerLLM
           answer_text == IF chat_failed(out) THEN g.answer ELSE strip(out.reply)
       IN  /\ a_response' = TwimlResponse(marker, answer_text,
                                          wa_reply(marker, answer_text, wa_cites(a_fwd)))
           /\ a_calls' = IF chat_failed(out) THEN [a_calls EXCEPT !.gen = @ + 1] ELSE a_calls
    /\ a_upstream' = Append(a_upstream, Upstream("llm", out))
    /\ a_pc' = "done"
    /\ UNCHANGED <<a_req, a_cfg, a_retrieved, a_fwd, f_pc, f_reply>>
    /\ UNCHANGED notAskVars

----------------------------------------------------------------------------
(* whatsapp_ask_gateway.py: ask_forward_twiml                              *)

\* r = await cli.post(ASK_ENDPOINT, data=form)
FwdPost ==
    /\ a_req.entry = "fwd" /\ f_pc = "idle"
    /\ f_pc' = "posted"
    /\ UNCHANGED <<a_req, a_cfg, a_pc, a_retrieved, a_fwd, a_calls, a_upstream, a_response,
                   f_reply>>
    /\ UNCHANGED notAskVars

\* The webhook answered 200 with its TwiML: a blank body gives the fixed
\* notice, any other body is returned as it is.
FwdRecvResponse ==
    /\ f_pc = "posted" /\ a_pc = "done"
    /\ f_reply' = IF strip(a_response.twiml) = <<>>
                  THEN ForwardOpen \o LocalSummaryUnavailable \o TwimlClose
                  ELSE a_response.twiml
    /\ f_pc' = "done"
    /\ UNCHANGED <<a_req, a_cfg, a_pc, a_retrieved, a_fwd, a_calls, a_upstream, a_response>>
    /\ UNCHANGED notAskVars

\* What the post can fail with: a status of 400 or more, a transport error, a
\* timeout (whose str() is empty).
ForwardFailures ==
    {[kind |-> "status", status |-> 502, text |-> <<>>],
     [kind |-> "exception", status |-> 0, text |-> ConnectErrorText],
     [kind |-> "timeout", status |-> 0, text |-> <<>>]}

\* Lines 67-71: a status of 400 or more gives the fixed notice, an exception
\* gives f'<Response><Message>Local error: {e}</Message></Response>'.
FwdRecvFailure(o) ==
    /\ f_pc = "posted"
    /\ f_reply' = IF o.kind = "status"
                  THEN ForwardOpen \o LocalSummaryUnavailable \o TwimlClose
                  ELSE ForwardOpen \o LocalErrorPrefix \o o.text \o TwimlClose
    /\ a_upstream' = Append(a_upstream, Upstream("ask_endpoint", o))
    /\ f_pc' = "done"
    /\ UNCHANGED <<a_req, a_cfg, a_pc, a_retrieved, a_fwd, a_calls, a_response>>
    /\ UNCHANGED notAskVars

----------------------------------------------------------------------------
(* The answer path: requests, retrieval results, specification             *)

\* The longest passage list retrieval returns in the model.
MaxRetrieved == 2

\* Passages as retriever._norm leaves them: doc_id, chunk, text.
AskPassages ==
    {[doc_id |-> DocD1, chunk |-> 0, text |-> TextLeave],
     [doc_id |-> DocD1, chunk |-> 3, text |-> TextTagged],
     [doc_id |-> DocD2, chunk |-> 1, text |-> TextHindi],
     [doc_id |-> DocD3, chunk |-> 2, text |-> TextBlank]}

RECURSIVE ListsUpTo(_, _)
ListsUpTo(S, n) ==
    IF n = 0 THEN {<<>>}
    ELSE LET shorter == ListsUpTo(S, n - 1)
         IN  shorter \cup {Append(l, x) : l \in {s \in shorter : Len(s) = n - 1}, x \in S}

\* What retrieval can return: nothing, or passages without repetition.
RetrievedLists ==
    {l \in ListsUpTo(AskPassages, MaxRetrieved) :
        \A i, j \in DOMAIN l : i # j => l[i] # l[j]}

\* The settings read from the environment: ASK_USE_LLM, ASK_SHOW_SOURCES and
\* whether the shared client finds a gateway base URL.
AskConfigs ==
    {[use_llm |-> TRUE, show_sources |-> FALSE, llm_base_set |-> TRUE],
     [use_llm |-> FALSE, show_sources |-> FALSE, llm_base_set |-> TRUE],
     [use_llm |-> TRUE, show_sources |-> TRUE, llm_base_set |-> TRUE],
     [use_llm |-> TRUE, show_sources |-> FALSE, llm_base_set |-> FALSE]}

\* AskRequest bodies (mode holds req.mode) and WhatsApp messages (mode holds
\* the message text, lang the language the webhook settled on).
AskRequests ==
    {[entry |-> "ask", mode |-> m, header_mode |-> h, lang |-> l, topk |-> 12,
      evidence_k |-> e, percent_cap |-> 60] :
         m \in {<<>>, EngineLocal, ModeLlmLonger}, h \in {<<>>, ModeGateway},
         l \in {"en", "hi"}, e \in {1, 8}}

WaRequests ==
    {[entry |-> en, mode |-> m, header_mode |-> <<>>, lang |-> l, topk |-> WA_TOPK,
      evidence_k |-> WA_TOPK, percent_cap |-> WA_PERCENT_CAP] :
         en \in {"wa", "fwd"}, m \in {<<>>, SampleQuestion, WaTextLlm, WaTextLocal},
         l \in {"en", "hi"}}

InitAsk ==
    /\ a_req \in AskRequests \cup WaRequests
    /\ a_cfg \in AskConfigs
    /\ a_pc = "idle"
    /\ a_retrieved = <<>>
    /\ a_fwd = <<>>
    /\ a_calls = [llm |-> 0, gen |-> 0]
    /\ a_upstream = <<>>
    /\ a_response = NoResponse
    /\ f_pc = "idle"
    /\ f_reply = <<>>
    /\ PromptIdle /\ ChatIdle /\ RetrIdle /\ SearchIdle /\ AnswererIdle /\ SummIdle /\ GaskIdle

NextAsk ==
    \/ AskAnswerCall
    \/ \E ps \in RetrievedLists : AskRetrieved(ps)
    \/ \E o \in LlmOutcomes : AskLlmReturn(o)
    \/ WaWebhookCall
    \/ \E ps \in RetrievedLists : WaRetrieved(ps)
    \/ \E out \in ChatOutcomes : WaLlmReturn(out)
    \/ FwdPost
    \/ FwdRecvResponse
    \/ \E o \in ForwardFailures : FwdRecvFailure(o)

SpecAsk == InitAsk /\ [][NextAsk]_vars

----------------------------------------------------------------------------
(* Claims about the answer path                                            *)

\* The gateway call of the handler failed: it raised, timed out, returned an
\* error result or returned blank text.
GatewayCallFailed ==
    \E j \in DOMAIN a_upstream :
        a_upstream[j].callee = "llm" /\ a_upstream[j].kind # "text"

\* The extractive answer generate_answer builds from the forwarded passages.
LocalAnswer(q, pc) ==
    generate_answer(q, a_req.lang, a_fwd, pc, a_cfg.show_sources).answer

\* C3: in the LLM path of the ask endpoint and in the llm/auto path of the
\* WhatsApp webhook, whenever the gateway call raised, timed out, returned an
\* error result or returned blank text while evidence is non-empty, the
\* handler has returned a normal response (nothing propagated) whose answer
\* is the local extractive answer built from the same forwarded passages,
\* marked local: meta.source = "local", respectively the Local marker.
C3_FailureFallsBackToLocal ==
    (GatewayCallFailed /\ a_fwd # <<>>) =>
        /\ a_pc = "done"
        /\ a_calls.gen = 1
        /\ a_req.entry = "ask" =>
              /\ a_response.kind = "json"
              /\ a_response.source = "local"
              /\ a_response.answer =
                     sanitize(LocalAnswer(SampleQuestion, a_req.percent_cap), "local")
        /\ a_req.entry \in {"wa", "fwd"} =>
              /\ a_response.kind = "twiml"
              /\ StartsWith(a_response.message, MarkerLocal)
              /\ a_response.answer = LocalAnswer(wa_question(a_req.mode), WA_PERCENT_CAP)
              /\ a_response.message =
                     wa_reply(MarkerLocalFallback, a_response.answer, wa_cites(a_fwd))

\* C3 witness: the ask endpoint answered a blank gateway reply with the
\* extractive bullets of the local answerer.
C3_Witness ==
    /\ GatewayCallFailed /\ a_fwd # <<>> /\ a_pc = "done"
    /\ a_upstream[1].kind = "blank"
    /\ a_req.entry = "ask"
    /\ a_response.source = "local"
    /\ StartsWith(a_response.answer, BulletPrefix)

\* The texts a user gets to see: the answer of the ask endpoint, the message
\* of the webhook, the TwiML the forwarding gateway hands to Twilio.
VisibleTexts ==
    (IF a_response.kind = "json" THEN {a_response.answer} ELSE {})
        \cup (IF a_response.kind = "twiml" THEN {a_response.message} ELSE {})
        \cup (IF f_pc = "done" THEN {f_reply} ELSE {})

\* The text of a transport exception, or the status code, of a failed upstream call.
FailureTexts ==
    {a_upstream[j].text : j \in {i \in DOMAIN a_upstream :
                                     a_upstream[i].kind = "exception"}}
        \cup {Digits(a_upstream[j].status) : j \in {i \in DOMAIN a_upstream :
                                                      a_upstream[i].kind = "status"}}

\* C4: no user-visible answer or message text of any entry point contains
\* the text of a transport exception or an upstream HTTP status code.
C4_NoRawErrorSurfaced ==
    \A t \in VisibleTexts : \A e \in FailureTexts : ~Contains(t, e)

\* C4 witness: an upstream call failed with an exception and a text was
\* returned to the user.
C4_Witness ==
    /\ \E j \in DOMAIN a_upstream : a_upstream[j].kind = "exception"
    /\ VisibleTexts # {}

\* C6: when retrieval returns zero passages, the ask endpoint ends the query
\* without calling the remote generator or the fallback composer and returns
\* the fixed insufficient-evidence text with citations = [], confidence = 0.0
\* and grounded = false.
C6_NoEvidenceShortCircuit ==
    (a_req.entry = "ask" /\ a_pc \notin {"idle", "retrieving"} /\ a_retrieved = <<>>) =>
        /\ a_pc = "done"
        /\ a_calls = [llm |-> 0, gen |-> 0]
        /\ a_upstream = <<>>
        /\ a_response.kind = "json"
        /\ a_response.answer = InsufficientEvidence
        /\ a_response.citations = <<>>
        /\ a_response.confidence = 0
        /\ a_response.grounded = FALSE

\* C6 witness: an LLM-mode query that retrieved nothing has ended.
C6_Witness ==
    /\ a_req.entry = "ask" /\ a_pc = "done" /\ a_retrieved = <<>>
    /\ a_response.source = "llm"
    /\ a_response.answer = InsufficientEvidence

----------------------------------------------------------------------------
(* Claims about the fields of the ask endpoint's response                  *)

\* The ask endpoint has returned a JSON response.
AskAnswered == a_req.entry = "ask" /\ a_pc = "done" /\ a_response.kind = "json"

\* The position in fwd of the first passage of document d.
FirstSeen(d) == CHOOSE i \in DOMAIN a_fwd : a_fwd[i].doc_id = d /\ \A j \in 1..(i - 1) : a_fwd[j].doc_id # d

\* C17: in every answer returned by the ask endpoint the citations group the
\* forwarded passages by document: each doc_id appears in at most one
\* citation, citations follow first-seen document order, at most 3 documents
\* are cited and each citation lists at most 4 distinct chunk indices.
C17_CitationsGroupedByDocument ==
    AskAnswered =>
        LET c == a_response.citations
        IN  /\ \A i, j \in DOMAIN c : i # j => c[i].doc_id # c[j].doc_id
            /\ \A i \in DOMAIN c : \E k \in DOMAIN a_fwd : a_fwd[k].doc_id = c[i].doc_id
            /\ \A i, j \in DOMAIN c : i < j => FirstSeen(c[i].doc_id) < FirstSeen(c[j].doc_id)
            /\ Len(c) <= 3
            /\ \A i \in DOMAIN c :
                  /\ Len(c[i].chunks) <= 4
                  /\ \A m, n \in DOMAIN c[i].chunks : m # n => c[i].chunks[m] # c[i].chunks[n]

\* What the endpoint returns: one citation per forwarded passage.
OneCitationPerPassage ==
    AskAnswered =>
        /\ Len(a_response.citations) = Len(a_fwd)
        /\ \A i \in DOMAIN a_fwd :
              a_response.citations[i] = [doc_id |-> a_fwd[i].doc_id, chunks |-> <<a_fwd[i].chunk>>]

\* C18: the confidence of an answer with non-empty evidence is the same on
\* the remote-generated, fallback and forced-local paths for the same
\* evidence: the value the forced-local path gives for the forwarded
\* passages, which grows with their number and stays below 1.0 (100
\* hundredths).
C18_ConfidenceFromEvidenceCount ==
    (AskAnswered /\ a_fwd # <<>>) =>
        /\ a_response.confidence =
               generate_answer(SampleQuestion, a_req.lang, a_fwd, a_req.percent_cap,
                               a_cfg.show_sources).confidence
        /\ a_response.confidence < 100

\* Every confidence returned with evidence is below 1.0, and the paths
\* through the gateway call return 0.9 whatever the evidence count.
ConfidenceBelowOne ==
    (AskAnswered /\ a_fwd # <<>>) =>
        /\ a_response.confidence < 100
        /\ a_upstream # <<>> => a_response.confidence = 90

\* C19: in every response of the ask endpoint grounded is true exactly when
\* the forwarded evidence is non-empty, whether the answer text came from
\* the remote generator, from the fallback after a failure, or from forced
\* local mode.
C19_GroundedIffEvidence ==
    AskAnswered => (a_response.grounded <=> a_fwd # <<>>)

\* C19 witness: the gateway call failed, the fallback composed the answer
\* from two forwarded passages, and the response is grounded.
C19_Witness ==
    /\ AskAnswered /\ Len(a_fwd) = 2
    /\ GatewayCallFailed /\ a_calls.gen = 1
    /\ a_response.source = "local"
    /\ a_response.grounded

\* The other paths of C19: forced local mode with evidence, the remote
\* generator's text, and no evidence.
GroundedLocalWitness ==
    AskAnswered /\ a_fwd # <<>> /\ a_upstream = <<>> /\ a_response.grounded

GroundedRemoteWitness ==
    AskAnswered /\ a_fwd # <<>> /\ a_response.source = "llm" /\ a_response.grounded

UngroundedWitness == AskAnswered /\ a_fwd = <<>> /\ ~a_response.grounded

\* C20: in every response of the ask endpoint meta.source is "llm" only if
\* the remote generator was invoked for that query and returned non-blank
\* text, and it is "local" whenever the answer text was generated locally.
C20_SourceNamesGenerator ==
    AskAnswered =>
        /\ a_response.source \in {"llm", "local"}
        /\ a_response.source = "llm" =>
              /\ a_calls.llm = 1
              /\ a_upstream # <<>>
              /\ a_upstream[Len(a_upstream)].callee = "llm"
              /\ a_upstream[Len(a_upstream)].kind = "text"
              /\ strip(a_upstream[Len(a_upstream)].text) # <<>>
        /\ (a_calls.gen > 0 \/ a_calls.llm = 0) => a_response.source = "local"

\* With evidence, meta.source names the generator of the text.
SourceNamesGeneratorWithEvidence ==
    (AskAnswered /\ a_fwd # <<>>) =>
        /\ a_response.source = "llm" <=>
              (a_calls = [llm |-> 1, gen |-> 0] /\ a_upstream[1].kind = "text")
        /\ a_response.source = "local" <=> a_calls.gen = 1

----------------------------------------------------------------------------
(* The local answer of the ask endpoint                                    *)

\* req.mode, the X-Ask-Mode header and ASK_USE_LLM resolve to local mode.
ForcedLocal == resolve_mode(a_req.mode, a_req.header_mode, a_cfg.use_llm) = "local"

\* The passages of the forwarded list that fit the percent_cap budget.
CappedFwd == cap_passages(a_fwd, a_req.percent_cap)

\* The bullets _local_extractive builds from those passages, sanitized.
SanitizedBullets == sanitize(local_extractive(CappedFwd, a_req.lang), "local")

\* The same bullets after _postprocess_wa (Source lines dropped, 420
\* characters kept, the Sources line appended when ASK_SHOW_SOURCES is set,
\* 480 characters kept), sanitized.  It depends on the language, the
\* forwarded passages, percent_cap and ASK_SHOW_SOURCES only.
SanitizedLocalAnswer ==
    sanitize(postprocess_wa(local_extractive(CappedFwd, a_req.lang), CappedFwd,
                            a_cfg.show_sources), "local")

\* The ask endpoint answered non-empty evidence in forced local mode or after
\* a failed gateway call.
AnsweredFromPassages ==
    /\ a_req.entry = "ask" /\ a_pc = "done" /\ a_fwd # <<>>
    /\ ForcedLocal \/ GatewayCallFailed

ForcedLocalWitness ==
    /\ AnsweredFromPassages /\ ForcedLocal
    /\ Len(a_fwd) = 2
    /\ a_response.answer = SanitizedBullets
    /\ Len(extract_bullets(CappedFwd, 1, 0)) = 2

----------------------------------------------------------------------------
(* The Source tags of the WhatsApp reply                                   *)

\* The webhook answered a message from non-empty evidence.
WaAnswered ==
    /\ a_req.entry \in {"wa", "fwd"} /\ a_pc = "done"
    /\ a_response.kind = "twiml" /\ a_fwd # <<>>

\* The reply is the marker line, the answer part and one line per Source tag
\* (format_wa_reply appends one for each of citations[:3]).
ReplyLines == SplitLines(a_response.message)

TagCount == Min(3, Len(wa_cites(a_fwd)))

SourceTagLines == SubSeq(ReplyLines, Len(ReplyLines) - TagCount + 1, Len(ReplyLines))

AnswerPart == Join(SubSeq(ReplyLines, 2, Len(ReplyLines) - TagCount), <<10>>)

\* The chunk indices of the forwarded passages of document d, in order.
RECURSIVE ChunksOfDoc(_, _)
ChunksOfDoc(d, i) ==
    IF i > Len(a_fwd) THEN <<>>
    ELSE (IF a_fwd[i].doc_id = d THEN <<a_fwd[i].chunk>> ELSE <<>>) \o ChunksOfDoc(d, i + 1)

\* "Source: [doc_id#c1,c2,...]" for document d
TagWithChunks(d) ==
    SourceTagPrefix \o <<91>> \o d \o <<35>> \o join_numbers(ChunksOfDoc(d, 1)) \o <<93>>

\* C21: in a WhatsApp webhook reply built from non-empty evidence, every
\* Source tag names a cited document with the chunk indices of that
\* document's forwarded passages, as [doc_id#c1,c2,...]; there are at most 3
\* Source tags and the answer part has at most 600 characters.
C21_SourceTagsNameChunks ==
    WaAnswered =>
        /\ \A k \in DOMAIN SourceTagLines :
              \E i \in DOMAIN a_fwd : SourceTagLines[k] = TagWithChunks(a_fwd[i].doc_id)
        /\ Len(SourceTagLines) <= 3
        /\ CharLen(AnswerPart) <= 600

\* What holds of the reply: at most 3 Source tags, each naming the document
\* of the forwarded passage at its position without chunk indices, and an
\* answer part of at most 600 characters.
SourceTagsNameDocuments ==
    WaAnswered =>
        /\ \A k \in DOMAIN SourceTagLines :
              SourceTagLines[k] = SourceTagPrefix \o <<91>> \o a_fwd[k].doc_id \o <<93>>
        /\ Len(SourceTagLines) <= 3
        /\ CharLen(AnswerPart) <= 600

----------------------------------------------------------------------------
(* Ask/be/services/retriever.py: retrieve_hybrid under concurrent calls    *)

\* _CANDIDATES: the paths and methods tried in order
CANDIDATES ==
    <<[path |-> "/api/search/hybrid", method |-> "GET"],
      [path |-> "/api/search/hybrid", method |-> "POST"],
      [path |-> "/api/search/semantic", method |-> "GET"],
      [path |-> "/api/search/semantic", method |-> "POST"],
      [path |-> "/api/search", method |-> "GET"],
      [path |-> "/api/search", method |-> "POST"]>>

\* for kname in ("n", "k", "limit", "topk")
CountNames == <<"n", "k", "limit", "topk">>

\* _build_param_variants(q, dept, n): one parameter dict per count name;
\* dept = "" stands for a dict without "dept".
build_param_variants(q, dept, n) ==
    [v \in DOMAIN CountNames |->
        [q |-> q, dept |-> dept, kname |-> CountNames[v], count |-> n]]

\* The coroutines of retrieve_hybrid that run on the one event loop.
Callers == {"A", "B"}

\* The arguments of a call: q, dept, topk.
RetrQueries ==
    {[q |-> "leave policy", dept |-> "hr", topk |-> 5],
     [q |-> "salary slip", dept |-> "", topk |-> 60]}

NoRequest == [path |-> "", method |-> "", params |-> [q |-> "", dept |-> "", kname |-> "", count |-> 0]]

NotReturned == [returned |-> FALSE, q |-> "", dept |-> "", len |-> 0]

\* A call not yet started.  variants is the list object the inner loop
\* iterates, vi the position in it, cand the position in _CANDIDATES.
NewCall(a) ==
    [q |-> a.q, dept |-> a.dept, n |-> Max(1, Min(a.topk, 50)), pc |-> "new",
     phase |-> "", cand |-> 0, variants |-> <<>>, vi |-> 0, req |-> NoRequest,
     result |-> NotReturned]

\* do(client, path, method, params): the request sent for the call's position
Request(cand, variants, vi) ==
    [path |-> CANDIDATES[cand].path, method |-> CANDIDATES[cand].method,
     params |-> variants[vi]]

\* retrieve_hybrid up to its first await: n is clamped, the module global
\* _PARAM_VARIANTS is rebound to this call's variants, _try_with_client
\* enters the ASGI phase (when _USE_ASGI is set and main.app imports) or the
\* HTTP phase, and the first request is sent.
RetrieveHybridCall(c, asgi) ==
    /\ r_calls[c].pc = "new"
    /\ LET mine == build_param_variants(r_calls[c].q, r_calls[c].dept, r_calls[c].n)
       IN  /\ PARAM_VARIANTS' = mine
           /\ r_calls' = [r_calls EXCEPT ![c] =
                  [@ EXCEPT !.pc = "await", !.phase = IF asgi THEN "asgi" ELSE "http",
                            !.cand = 1, !.variants = mine, !.vi = 1,
                            !.req = Request(1, mine, 1)]]
    /\ UNCHANGED notRetrVars

\* The awaited request returned 200 with a non-empty list: _try_with_client
\* returns it and retrieve_hybrid returns [_norm(p) for p in raw[:n]].  The
\* backend answers the parameters it was sent.
RetrResponseHit(c) ==
    /\ r_calls[c].pc = "await"
    /\ LET me == r_calls[c]
       IN  r_calls' = [r_calls EXCEPT ![c] =
               [me EXCEPT !.pc = "done",
                          !.result = [returned |-> TRUE, q |-> me.req.params.q,
                                      dept |-> me.req.params.dept,
                                      len |-> Min(me.n, me.req.params.count)]]]
    /\ UNCHANGED PARAM_VARIANTS
    /\ UNCHANGED notRetrVars

\* The awaited request raised, or returned a non-200 status or an empty
\* list: the inner loop takes the next variant of the list it iterates; when
\* that list is exhausted the outer loop takes the next candidate and
\* `for params in _PARAM_VARIANTS` reads the module global again; after the
\* last candidate the ASGI phase is followed by the HTTP phase, and the HTTP
\* phase by `return None`, which retrieve_hybrid turns into [].
RetrResponseMiss(c) ==
    /\ r_calls[c].pc = "await"
    /\ LET me == r_calls[c]
       IN  r_calls' = [r_calls EXCEPT ![c] =
               IF me.vi < Len(me.variants)
               THEN [me EXCEPT !.vi = me.vi + 1,
                               !.req = Request(me.cand, me.variants, me.vi + 1)]
               ELSE IF me.cand < Len(CANDIDATES)
               THEN [me EXCEPT !.cand = me.cand + 1, !.variants = PARAM_VARIANTS, !.vi = 1,
                               !.req = Request(me.cand + 1, PARAM_VARIANTS, 1)]
               ELSE IF me.phase = "asgi"
               THEN [me EXCEPT !.phase = "http", !.cand = 1, !.variants = PARAM_VARIANTS,
                               !.vi = 1, !.req = Request(1, PARAM_VARIANTS, 1)]
               ELSE [me EXCEPT !.pc = "done",
                               !.result = [returned |-> TRUE, q |-> me.q, dept |-> me.dept,
                                           len |-> 0]]]
    /\ UNCHANGED PARAM_VARIANTS
    /\ UNCHANGED notRetrVars

InitRetr ==
    /\ PARAM_VARIANTS = <<>>
    /\ r_calls \in [Callers -> {NewCall(a) : a \in RetrQueries}]
    /\ PromptIdle /\ ChatIdle /\ AskIdle /\ SearchIdle /\ AnswererIdle /\ SummIdle /\ GaskIdle

NextRetr ==
    \/ \E c \in Callers, asgi \in BOOLEAN : RetrieveHybridCall(c, asgi)
    \/ \E c \in Callers : RetrResponseHit(c)
    \/ \E c \in Callers : RetrResponseMiss(c)

SpecRetr == InitRetr /\ [][NextRetr]_vars

\* C5: under any interleaving of concurrent retrieve_hybrid calls, every
\* search request issued on behalf of a call carries that call's own query
\* text, department filter and result count, and the passages returned to a
\* call are those of its own query.
C5_RequestsCarryOwnQuery ==
    \A c \in Callers :
        /\ r_calls[c].pc = "await" =>
              /\ r_calls[c].req.params.q = r_calls[c].q
              /\ r_calls[c].req.params.dept = r_calls[c].dept
              /\ r_calls[c].req.params.count = r_calls[c].n
        /\ (r_calls[c].pc = "done" /\ r_calls[c].result.len > 0) =>
              /\ r_calls[c].result.q = r_calls[c].q
              /\ r_calls[c].result.dept = r_calls[c].dept

----------------------------------------------------------------------------
(* Hybrid search: api_search (server_hr.py), search_hybrid (ops_router.py) *)
(*                                                                         *)
(* A score is a fraction [num, den] with den > 0.  A raw score of a pool   *)
(* row is given in tenths.                                                 *)

Frac(n, d) == [num |-> n, den |-> d]

\* a > b on fractions
Greater(a, b) == a.num * b.den > b.num * a.den

\* 0.0 <= x <= 1.0
InUnit(x) == 0 <= x.num /\ x.num <= x.den

\* seq.sort(key=lambda h: h.score, reverse=True): descending and stable
sort_by_score_desc(seq) ==
    LET pos(i) == Cardinality({j \in DOMAIN seq : Greater(seq[j].score, seq[i].score)})
                      + Cardinality({j \in 1..(i - 1) : ~Greater(seq[i].score, seq[j].score)
                                                         /\ ~Greater(seq[j].score, seq[i].score)})
                      + 1
    IN  [p \in DOMAIN seq |-> seq[CHOOSE i \in DOMAIN seq : pos(i) = p]]

\* key = lambda h: (h.doc_id, h.chunk_index)
hit_key(h) == <<h.doc_id, h.chunk_index>>

\* The position of key kk in the insertion-ordered dict m, 0 when absent.
key_index(m, kk) ==
    IF \E i \in DOMAIN m : hit_key(m[i]) = kk
    THEN CHOOSE i \in DOMAIN m : hit_key(m[i]) = kk
    ELSE 0

\* clamp01((h.score + 1.0) / 2.0), in 1/20
sem_norm(score) == Max(0, Min(20, score + 10))

\* clamp01(h.score), in 1/20
kw_norm(score) == 2 * Max(0, Min(10, score))

\* The loop over sem_hits: merged[kkey] = {...}; a key met again keeps its
\* place in the dict and takes the later values.
RECURSIVE merge_sem(_, _, _)
merge_sem(sem_hits, i, m) ==
    IF i > Len(sem_hits) THEN m
    ELSE LET h == sem_hits[i]
             e == [doc_id |-> h.doc_id, chunk_index |-> h.chunk_index,
                   sem |-> sem_norm(h.score), kw |-> 0,
                   source_sem |-> TRUE, source_kw |-> FALSE]
             at == key_index(m, hit_key(h))
         IN  merge_sem(sem_hits, i + 1, IF at = 0 THEN Append(m, e) ELSE [m EXCEPT ![at] = e])

\* A variant of the loop over kw_hits that leaves a key already merged as
\* the semantic loop made it.
RECURSIVE merge_kw_keep_first(_, _, _)
merge_kw_keep_first(kw_hits, i, m) ==
    IF i > Len(kw_hits) THEN m
    ELSE LET h == kw_hits[i]
             e == [doc_id |-> h.doc_id, chunk_index |-> h.chunk_index,
                   sem |-> 0, kw |-> kw_norm(h.score),
                   source_sem |-> FALSE, source_kw |-> TRUE]
             at == key_index(m, hit_key(h))
         IN  merge_kw_keep_first(kw_hits, i + 1, IF at = 0 THEN Append(m, e) ELSE m)

\* The loop over kw_hits: a key already merged takes the larger kw and
\* source_kw, a new key is added with sem 0.
RECURSIVE merge_kw(_, _, _)
merge_kw(kw_hits, i, m) ==
    IF i > Len(kw_hits) THEN m
    ELSE LET h == kw_hits[i]
             e == [doc_id |-> h.doc_id, chunk_index |-> h.chunk_index,
                   sem |-> 0, kw |-> kw_norm(h.score),
                   source_sem |-> FALSE, source_kw |-> TRUE]
             at == key_index(m, hit_key(h))
         IN  merge_kw(kw_hits, i + 1,
                      IF at = 0 THEN Append(m, e)
                      ELSE [m EXCEPT ![at].kw = Max(@, kw_norm(h.score)),
                                     ![at].source_kw = TRUE])

\* combined = alpha * m["sem"] + (1.0 - alpha) * m["kw"], alpha in tenths:
\* a fraction over 10 * 20
fuse(m, alpha) ==
    [i \in DOMAIN m |->
        [doc_id |-> m[i].doc_id, chunk_index |-> m[i].chunk_index,
         score |-> Frac(alpha * m[i].sem + (10 - alpha) * m[i].kw, 200),
         source |-> IF m[i].source_sem /\ m[i].source_kw THEN "hybrid"
                    ELSE IF m[i].source_sem THEN "semantic" ELSE "keyword"]]

\* A variant that sorts the whole candidate list by the reranker's score.
maybe_rerank_whole_list(cands, rerank, top_m) ==
    IF rerank.mode # "scores" \/ top_m <= 0 \/ cands = <<>> THEN cands
    ELSE sort_by_score_desc(
             [i \in DOMAIN cands |->
                 [cands[i] EXCEPT !.score = Frac(rerank.scores[hit_key(cands[i])], 1000)]])

\* _maybe_rerank(q, cands, top_m).  rerank.mode is "off" (RERANK unset),
\* "load_failed" (_get_reranker returns None), "predict_raised"
\* (model.predict raises) or "scores": the cross-encoder gives these scores,
\* by key, in thousandths; the first m candidates are sorted by that score
\* and take it as their score.
maybe_rerank(cands, rerank, top_m) ==
    IF rerank.mode # "scores" \/ top_m <= 0 \/ cands = <<>> THEN cands
    ELSE LET m == Min(top_m, Len(cands))
             scored == [i \in 1..m |->
                           [cands[i] EXCEPT !.score = Frac(rerank.scores[hit_key(cands[i])], 1000)]]
         IN  sort_by_score_desc(scored) \o SubSeq(cands, m + 1, Len(cands))

\* near(a, b)
near(a, b) == a.doc_id = b.doc_id /\ a.chunk_index - b.chunk_index \in {-1, 0, 1}

\* A variant of the strict pass that only skips exact keys.
RECURSIVE strict_pass_exact_only(_, _, _, _)
strict_pass_exact_only(cands, i, fused, n) ==
    IF i > Len(cands) \/ Len(fused) >= n THEN fused
    ELSE IF \E k \in DOMAIN fused : hit_key(cands[i]) = hit_key(fused[k])
         THEN strict_pass_exact_only(cands, i + 1, fused, n)
         ELSE strict_pass_exact_only(cands, i + 1, Append(fused, cands[i]), n)

\* Lines 301-306: keep a candidate unless it is near a kept one; stop at n.
RECURSIVE strict_pass(_, _, _, _)
strict_pass(cands, i, fused, n) ==
    IF i > Len(cands) \/ Len(fused) >= n THEN fused
    ELSE IF \E k \in DOMAIN fused : near(cands[i], fused[k])
         THEN strict_pass(cands, i + 1, fused, n)
         ELSE strict_pass(cands, i + 1, Append(fused, cands[i]), n)

\* A variant of the backfill pass that appends without looking at what is kept.
RECURSIVE backfill_any(_, _, _, _)
backfill_any(cands, i, fused, n) ==
    IF i > Len(cands) \/ Len(fused) >= n THEN fused
    ELSE backfill_any(cands, i + 1, Append(fused, cands[i]), n)

\* Lines 308-314: append the candidates not yet in fused until n are kept.
RECURSIVE backfill(_, _, _, _)
backfill(cands, i, fused, n) ==
    IF i > Len(cands) \/ Len(fused) >= n THEN fused
    ELSE IF \E k \in DOMAIN fused : fused[k] = cands[i]
         THEN backfill(cands, i + 1, fused, n)
         ELSE backfill(cands, i + 1, Append(fused, cands[i]), n)

\* Lines 316-317: [SearchHit(**h.dict(), source="fallback") for h in kw_hits[:n]]
lexical_fallback(fused, kw_hits, n) ==
    IF fused = <<>> /\ kw_hits # <<>>
    THEN [i \in 1..Min(n, Len(kw_hits)) |->
             [doc_id |-> kw_hits[i].doc_id, chunk_index |-> kw_hits[i].chunk_index,
              score |-> Frac(kw_hits[i].score, 10), source |-> "fallback"]]
    ELSE fused

\* RERANK_TOP
RERANK_TOP == 10

\* api_search, lines 247-295: merge the pools, fuse, sort, rerank.
ApiSearchFuse ==
    /\ s_req.entry = "api_search" /\ s_pc = "start"
    /\ s_cands' = maybe_rerank(
                      sort_by_score_desc(
                          fuse(merge_kw(s_req.kw, 1, merge_sem(s_req.sem, 1, <<>>)),
                               s_req.alpha)),
                      s_req.rerank, s_req.rerank.top)
    /\ s_pc' = "ranked"
    /\ UNCHANGED <<s_req, s_fused, s_out>>
    /\ UNCHANGED notSearchVars

\* api_search, lines 297-306: the strict pass.
ApiSearchStrictPass ==
    /\ s_req.entry = "api_search" /\ s_pc = "ranked"
    /\ s_fused' = strict_pass(s_cands, 1, <<>>, s_req.n)
    /\ s_pc' = "strict"
    /\ UNCHANGED <<s_req, s_cands, s_out>>
    /\ UNCHANGED notSearchVars

\* api_search, lines 308-330: the backfill pass, the lexical fallback, return.
ApiSearchBackfill ==
    /\ s_req.entry = "api_search" /\ s_pc = "strict"
    /\ LET filled == IF Len(s_fused) < s_req.n
                     THEN backfill(s_cands, 1, s_fused, s_req.n)
                     ELSE s_fused
       IN  /\ s_fused' = lexical_fallback(filled, s_req.kw, s_req.n)
           /\ s_out' = lexical_fallback(filled, s_req.kw, s_req.n)
    /\ s_pc' = "done"
    /\ UNCHANGED <<s_req, s_cands>>
    /\ UNCHANGED notSearchVars

----------------------------------------------------------------------------
(* server/ops_router.py: search_hybrid                                     *)

\* norm(scores): min-max normalisation, all 0.0 when hi <= lo
norm(scores, i) ==
    LET lo == CHOOSE x \in {scores[j] : j \in DOMAIN scores} :
                  \A j \in DOMAIN scores : x <= scores[j]
        hi == CHOOSE x \in {scores[j] : j \in DOMAIN scores} :
                  \A j \in DOMAIN scores : x >= scores[j]
    IN  IF hi <= lo THEN Frac(0, 1) ELSE Frac(scores[i] - lo, hi - lo)

\* The loop over sem_rows: pool[key] = {...} with sem_n, kw_n = 0.0
RECURSIVE pool_sem(_, _, _)
pool_sem(sem_rows, i, pool) ==
    IF i > Len(sem_rows) THEN pool
    ELSE LET r == sem_rows[i]
             e == [doc_id |-> r.doc_id, chunk_index |-> r.chunk_index,
                   sem_n |-> norm([j \in DOMAIN sem_rows |-> sem_rows[j].score], i),
                   kw_n |-> Frac(0, 1)]
             at == key_index(pool, hit_key(r))
         IN  pool_sem(sem_rows, i + 1,
                      IF at = 0 THEN Append(pool, e) ELSE [pool EXCEPT ![at] = e])

\* The loop over kw_rows: a pooled key takes kw_n, a new key is added with sem_n 0.0
RECURSIVE pool_kw(_, _, _)
pool_kw(kw_rows, i, pool) ==
    IF i > Len(kw_rows) THEN pool
    ELSE LET r == kw_rows[i]
             n == norm([j \in DOMAIN kw_rows |-> kw_rows[j].score], i)
             e == [doc_id |-> r.doc_id, chunk_index |-> r.chunk_index,
                   sem_n |-> Frac(0, 1), kw_n |-> n]
             at == key_index(pool, hit_key(r))
         IN  pool_kw(kw_rows, i + 1,
                     IF at = 0 THEN Append(pool, e) ELSE [pool EXCEPT ![at].kw_n = n])

\* v["score"] = alpha * sem_n + (1.0 - alpha) * kw_n, alpha in tenths
hybrid_score(v, alpha) ==
    Frac(alpha * v.sem_n.num * v.kw_n.den + (10 - alpha) * v.kw_n.num * v.sem_n.den,
         10 * v.sem_n.den * v.kw_n.den)

\* The first k decimal digits of r / den for 0 <= r < den, and what is left
RECURSIVE decimals(_, _, _, _)
decimals(r, den, k, acc) ==
    IF k = 0 THEN [digits |-> acc, rest |-> r]
    ELSE decimals((r * 10) % den, den, k - 1, acc * 10 + (r * 10) \div den)

\* round(x, 6) for x >= 0, to the nearest millionth, ties to even
round6(x) ==
    LET d == decimals(x.num % x.den, x.den, 6, x.num \div x.den)
        up == 2 * d.rest > x.den \/ (2 * d.rest = x.den /\ d.digits % 2 = 1)
    IN  Frac(IF up THEN d.digits + 1 ELSE d.digits, 1000000)

\* Lines 964-1023: normalise, fuse, sort, return the first k.
search_hybrid(sem_rows, kw_rows, alpha, k) ==
    LET pool == pool_kw(kw_rows, 1, pool_sem(sem_rows, 1, <<>>))
        fused == sort_by_score_desc(
                     [i \in DOMAIN pool |->
                         [doc_id |-> pool[i].doc_id, chunk_index |-> pool[i].chunk_index,
                          score |-> hybrid_score(pool[i], alpha)]])
    IN  [i \in 1..Min(k, Len(fused)) |-> [fused[i] EXCEPT !.score = round6(@)]]

SearchHybrid ==
    /\ s_req.entry = "search_hybrid" /\ s_pc = "start"
    /\ s_out' = search_hybrid(s_req.sem, s_req.kw, s_req.alpha, s_req.k)
    /\ s_pc' = "done"
    /\ UNCHANGED <<s_req, s_cands, s_fused>>
    /\ UNCHANGED notSearchVars

----------------------------------------------------------------------------
(* Search requests and specification                                       *)

\* The longest pool in the model.
MaxPool == 2

\* The chunks of the index: (doc_id, chunk_index).
ChunkKeys == {<<"d1", 0>>, <<"d1", 1>>, <<"d1", 2>>, <<"d2", 5>>}

\* Rows of the semantic pool, score = 1 - cosine distance in tenths, and
\* of the lexical pool, score = trigram similarity in tenths.
SemRows == {[doc_id |-> kk[1], chunk_index |-> kk[2], score |-> sc] :
                kk \in ChunkKeys \ {<<"d1", 2>>}, sc \in {-2, 9}}

KwRows == {[doc_id |-> kk[1], chunk_index |-> kk[2], score |-> sc] :
               kk \in ChunkKeys \ {<<"d1", 0>>}, sc \in {3, 10}}

\* A pool as the SQL returns it: distinct chunks, ORDER BY score DESC.
Pools(rows) ==
    {p \in ListsUpTo(rows, MaxPool) :
        /\ \A i, j \in DOMAIN p : i # j => hit_key(p[i]) # hit_key(p[j])
        /\ \A i, j \in DOMAIN p : i < j => p[i].score >= p[j].score}

\* The reranker: RERANK unset, a model that does not load, a model whose
\* predict() raises, or a cross-encoder whose predict() gives these relevance
\* scores (ms-marco logits), in thousandths.  top is RERANK_TOP as
\* configured: the default, or 2.
Rerankers ==
    {[mode |-> md, scores |-> <<>>, top |-> RERANK_TOP] :
         md \in {"off", "load_failed", "predict_raised"}}
      \cup
    {[mode |-> "scores", top |-> t,
      scores |-> [kk \in ChunkKeys |->
                     IF kk[1] = "d2" THEN 7300 ELSE IF kk[2] = 1 THEN 0 - 4200 ELSE 350]] :
         t \in {RERANK_TOP, 2}}

SearchRequests ==
    {[entry |-> "api_search", sem |-> sp, kw |-> kp, alpha |-> a, n |-> n, k |-> 0,
      rerank |-> rr] :
         sp \in Pools(SemRows), kp \in Pools(KwRows), a \in {0, 8, 10}, n \in {1, 3},
         rr \in Rerankers}
      \cup
    {[entry |-> "search_hybrid", sem |-> sp, kw |-> kp, alpha |-> a, n |-> 0, k |-> k,
      rerank |-> [mode |-> "off", scores |-> <<>>, top |-> RERANK_TOP]] :
         sp \in Pools(SemRows), kp \in Pools(KwRows), a \in {0, 3, 10}, k \in {1, 50}}

InitSearch ==
    /\ s_req \in SearchRequests
    /\ s_pc = "start"
    /\ s_cands = <<>>
    /\ s_fused = <<>>
    /\ s_out = <<>>
    /\ PromptIdle /\ ChatIdle /\ AskIdle /\ RetrIdle /\ AnswererIdle /\ SummIdle /\ GaskIdle

NextSearch ==
    \/ ApiSearchFuse
    \/ ApiSearchStrictPass
    \/ ApiSearchBackfill
    \/ SearchHybrid

SpecSearch == InitSearch /\ [][NextSearch]_vars

----------------------------------------------------------------------------
(* Claims about hybrid search                                              *)

\* C11: every candidate returned by hybrid search (api_search, search_hybrid)
\* carries a score in [0,1], for every alpha in [0,1] and every content of
\* the pools, whether or not reranking is enabled.
C11_ScoresInUnit ==
    s_pc = "done" => \A i \in DOMAIN s_out : InUnit(s_out[i].score)

\* The scores returned without a working reranker are in [0,1].
ScoresInUnitWithoutRerank ==
    (s_pc = "done" /\ s_req.rerank.mode # "scores")
        => \A i \in DOMAIN s_out : InUnit(s_out[i].score)

\* The position of a kept candidate in cands.
CandIndex(h) == CHOOSE i \in DOMAIN s_cands : s_cands[i] = h

\* C12: after the strict dedup pass of api_search no two kept candidates
\* have the same doc_id and chunk indices that differ by at most 1; the kept
\* candidates are in the order of the sorted list, at most N are kept, and
\* the pass left out only candidates near a kept one unless N were kept.
C12_StrictPassAdjacency ==
    s_pc = "strict" =>
        /\ \A i, j \in DOMAIN s_fused : i # j => ~near(s_fused[i], s_fused[j])
        /\ \A i \in DOMAIN s_fused : \E c \in DOMAIN s_cands : s_cands[c] = s_fused[i]
        /\ \A i, j \in DOMAIN s_fused : i < j => CandIndex(s_fused[i]) < CandIndex(s_fused[j])
        /\ Len(s_fused) <= s_req.n
        /\ Len(s_fused) < s_req.n =>
              \A c \in DOMAIN s_cands : \E i \in DOMAIN s_fused : near(s_cands[c], s_fused[i])

\* C12 witness: the strict pass kept two candidates and left out one that is
\* next to a kept chunk of the same document.
C12_Witness ==
    /\ s_pc = "strict"
    /\ Len(s_fused) >= 2
    /\ \E c \in DOMAIN s_cands :
          /\ \A i \in DOMAIN s_fused : s_fused[i] # s_cands[c]
          /\ \E i \in DOMAIN s_fused :
                near(s_cands[c], s_fused[i]) /\ hit_key(s_cands[c]) # hit_key(s_fused[i])

\* C13: the list returned by api_search never contains two entries with the
\* same identity key (doc_id, chunk_index), after the strict pass and after
\* the backfill pass, and it has at most N entries.
C13_NoDuplicateKeys ==
    (s_req.entry = "api_search" /\ s_pc \in {"strict", "done"}) =>
        /\ \A i, j \in DOMAIN s_fused : i # j => hit_key(s_fused[i]) # hit_key(s_fused[j])
        /\ Len(s_fused) <= s_req.n
        /\ s_pc = "done" => s_out = s_fused

\* C13 witness: the backfill pass appended a candidate the strict pass had
\* left out.
C13_Witness ==
    /\ s_req.entry = "api_search" /\ s_pc = "done"
    /\ Len(s_out) > Len(strict_pass(s_cands, 1, <<>>, s_req.n))
    /\ \E i, j \in DOMAIN s_out : i # j /\ near(s_out[i], s_out[j])

\* C14: api_search has a lexical-only degrade path: when the semantic pool
\* is empty and the lexical pool is not, the entries returned are the lexical
\* hits tagged source=fallback; when both pools are empty it returns an
\* empty list.
C14_LexicalOnlyFallback ==
    (s_req.entry = "api_search" /\ s_pc = "done" /\ s_req.sem = <<>>) =>
        IF s_req.kw = <<>> THEN s_out = <<>>
        ELSE s_out # <<>> /\ \A i \in DOMAIN s_out : s_out[i].source = "fallback"

\* No entry returned by api_search is tagged source=fallback.
NoFallbackEntry ==
    \A i \in DOMAIN s_out : "source" \in DOMAIN s_out[i] => s_out[i].source # "fallback"

\* Both pools empty: api_search returns an empty list.
EmptyPoolsEmptyList ==
    (s_req.entry = "api_search" /\ s_pc = "done" /\ s_req.sem = <<>> /\ s_req.kw = <<>>)
        => s_out = <<>>

----------------------------------------------------------------------------
(* Further claims about hybrid search                                      *)

\* seq is in non-increasing order of score.
NonIncreasing(seq) ==
    \A i, j \in DOMAIN seq : i < j => ~Greater(seq[j].score, seq[i].score)

\* C30: with reranking disabled, the list returned by api_search is in
\* non-increasing order of fused score, after the strict dedup pass and
\* after the backfill pass.
C30_ReturnedInScoreOrder ==
    (s_req.entry = "api_search" /\ s_req.rerank.mode = "off" /\ s_pc \in {"strict", "done"})
        => NonIncreasing(s_fused)

\* After the strict pass alone the kept candidates are in score order.
StrictPassInScoreOrder ==
    (s_req.entry = "api_search" /\ s_req.rerank.mode = "off" /\ s_pc = "strict")
        => NonIncreasing(s_fused)

\* The keys of a pool, and the row of a key in a pool that holds it.
PoolKeys(pool) == {hit_key(pool[i]) : i \in DOMAIN pool}

RowOf(pool, kk) == CHOOSE i \in DOMAIN pool : hit_key(pool[i]) = kk

\* a = b on fractions
SameFrac(a, b) == a.num * b.den = b.num * a.den

\* alpha * sem_norm + (1 - alpha) * kw_norm for key kk in api_search, the
\* component of a pool without kk being 0; alpha in tenths, norms in 1/20.
ExpectedFused(kk) ==
    LET sn == IF kk \in PoolKeys(s_req.sem)
              THEN sem_norm(s_req.sem[RowOf(s_req.sem, kk)].score) ELSE 0
        kn == IF kk \in PoolKeys(s_req.kw)
              THEN kw_norm(s_req.kw[RowOf(s_req.kw, kk)].score) ELSE 0
    IN  Frac(s_req.alpha * sn + (10 - s_req.alpha) * kn, 200)

\* The same for search_hybrid, whose norms are the min-max normalised
\* scores of each pool, rounded to 6 decimals on return.
ExpectedHybrid(kk) ==
    LET sn == IF kk \in PoolKeys(s_req.sem)
              THEN norm([j \in DOMAIN s_req.sem |-> s_req.sem[j].score], RowOf(s_req.sem, kk))
              ELSE Frac(0, 1)
        kn == IF kk \in PoolKeys(s_req.kw)
              THEN norm([j \in DOMAIN s_req.kw |-> s_req.kw[j].score], RowOf(s_req.kw, kk))
              ELSE Frac(0, 1)
    IN  round6(Frac(s_req.alpha * sn.num * kn.den + (10 - s_req.alpha) * kn.num * sn.den,
                    10 * sn.den * kn.den))

\* C25: hybrid search keeps exactly one merged candidate per identity key
\* (doc_id, chunk_index); its source is hybrid exactly when the key occurs in
\* both pools, semantic when only in the semantic pool, keyword when only in
\* the lexical pool, and its fused score is alpha * sem_norm +
\* (1 - alpha) * kw_norm with the component of a missing pool equal to 0.
C25_OneCandidatePerKey ==
    /\ (s_req.entry = "api_search" /\ s_pc = "ranked") =>
          /\ PoolKeys(s_cands) = PoolKeys(s_req.sem) \cup PoolKeys(s_req.kw)
          /\ \A i, j \in DOMAIN s_cands : i # j => hit_key(s_cands[i]) # hit_key(s_cands[j])
          /\ \A i \in DOMAIN s_cands :
                LET kk == hit_key(s_cands[i])
                IN  /\ s_cands[i].source =
                           (IF kk \in PoolKeys(s_req.sem) /\ kk \in PoolKeys(s_req.kw)
                            THEN "hybrid"
                            ELSE IF kk \in PoolKeys(s_req.sem) THEN "semantic" ELSE "keyword")
                    /\ s_req.rerank.mode # "scores" =>
                           SameFrac(s_cands[i].score, ExpectedFused(kk))
    /\ (s_req.entry = "search_hybrid" /\ s_pc = "done") =>
          /\ PoolKeys(s_out) \subseteq PoolKeys(s_req.sem) \cup PoolKeys(s_req.kw)
          /\ Len(s_out) = Min(s_req.k, Cardinality(PoolKeys(s_req.sem) \cup PoolKeys(s_req.kw)))
          /\ \A i, j \in DOMAIN s_out : i # j => hit_key(s_out[i]) # hit_key(s_out[j])
          /\ \A i \in DOMAIN s_out :
                s_out[i].score = ExpectedHybrid(hit_key(s_out[i]))

\* C25 witness: api_search merged a key of both pools, a key of the semantic
\* pool only and a key of the lexical pool only, with 0 < alpha < 1.
C25_Witness ==
    /\ s_req.entry = "api_search" /\ s_pc = "ranked"
    /\ s_req.alpha = 8
    /\ {s_cands[i].source : i \in DOMAIN s_cands} = {"hybrid", "semantic", "keyword"}

\* C25 witness for search_hybrid: a key of both pools was returned with a
\* score made of both components, 0.3 * 1.0 + 0.7 * 1.0.
HybridBothPoolsWitness ==
    /\ s_req.entry = "search_hybrid" /\ s_pc = "done" /\ s_req.alpha = 3
    /\ \E i \in DOMAIN s_out :
          /\ hit_key(s_out[i]) \in PoolKeys(s_req.sem) \cap PoolKeys(s_req.kw)
          /\ s_out[i].score = Frac(1000000, 1000000)

\* cands as api_search hands it to _maybe_rerank: merged, fused, sorted.
BeforeRerank ==
    sort_by_score_desc(
        fuse(merge_kw(s_req.kw, 1, merge_sem(s_req.sem, 1, <<>>)), s_req.alpha))

\* C26: if the reranker model cannot be loaded or its scoring call raises,
\* _maybe_rerank returns the candidate list with the same order and the same
\* scores; when reranking succeeds it only permutes the first M candidates
\* and leaves the candidates after position M in their original order.
C26_RerankFailOpen ==
    (s_req.entry = "api_search" /\ s_pc = "ranked") =>
        LET before == BeforeRerank
            m == Min(s_req.rerank.top, Len(before))
        IN  /\ Len(s_cands) = Len(before)
            /\ s_req.rerank.mode \in {"load_failed", "predict_raised"} => s_cands = before
            /\ s_req.rerank.mode = "scores" =>
                  /\ {hit_key(s_cands[i]) : i \in 1..m} = {hit_key(before[i]) : i \in 1..m}
                  /\ \A i \in (m + 1)..Len(before) : s_cands[i] = before[i]

\* C26 witness: reranking of the first 2 of at least 3 candidates exchanged
\* the two.
C26_Witness ==
    /\ s_req.entry = "api_search" /\ s_pc = "ranked"
    /\ s_req.rerank.mode = "scores" /\ s_req.rerank.top = 2
    /\ Len(s_cands) >= 3
    /\ hit_key(s_cands[1]) = hit_key(BeforeRerank[2])
    /\ hit_key(s_cands[2]) = hit_key(BeforeRerank[1])

\* C26 witness of the failure case: predict raised on a list of candidates
\* with different scores.
RerankFailedWitness ==
    /\ s_req.entry = "api_search" /\ s_pc = "ranked"
    /\ s_req.rerank.mode = "predict_raised"
    /\ Len(s_cands) >= 2
    /\ Greater(s_cands[1].score, s_cands[2].score)

----------------------------------------------------------------------------
(* Ask/be/services/answerer.py: _local_extractive called on its own        *)

\* The longest passage list handed to the composer.
MaxComposed == 5

\* "nd more days. x": a text that lost its first character
TextClipped == <<110, 100, 32, 109, 111, 114, 101, 32, 100, 97, 121, 115, 46, 32, 120>>

\* "d4"
DocD4 == <<100, 52>>

\* Passages of the answer path, one without a sentence break and longer than
\* 220 characters, and one whose text lost its first character.
ComposerPassages ==
    AskPassages \cup
        {[doc_id |-> DocD4, chunk |-> 7, text |-> Rep(<<101>>, 230)],
         [doc_id |-> DocD4, chunk |-> 8, text |-> TextClipped]}

ComposerLists ==
    {l \in ListsUpTo(ComposerPassages, MaxComposed) :
        \A i, j \in DOMAIN l : i # j => l[i] # l[j]}

\* Language codes: en|hi, in upper case, and absent.
ComposerLangs == {"en", "hi", "HI", ""}

NotComposed == [fn |-> "none", bullets |-> <<>>, text |-> <<>>]

InitAnswerer ==
    /\ x_passages \in ComposerLists
    /\ x_lang \in ComposerLangs
    /\ x_out = NotComposed
    /\ PromptIdle /\ ChatIdle /\ AskIdle /\ RetrIdle /\ SearchIdle /\ SummIdle /\ GaskIdle

\* _local_extractive(passages, lang): bullets is the list the loop built,
\* text the string returned.
LocalExtractiveCall ==
    /\ x_out.fn = "none"
    /\ x_out' = [fn |-> "local_extractive",
                 bullets |-> extract_bullets(x_passages, 1, 0),
                 text |-> local_extractive(x_passages, x_lang)]
    /\ UNCHANGED <<x_passages, x_lang>>
    /\ UNCHANGED notAnswererVars

NextAnswerer == LocalExtractiveCall

SpecAnswerer == InitAnswerer /\ [][NextAnswerer]_vars

\* The passages among the first 4 whose text is not blank, in order.
UsableOfFirstFour ==
    SelectSeq(SubSeq(x_passages, 1, Min(4, Len(x_passages))),
              LAMBDA p : strip(p.text) # <<>>)

EmptyComposerWitness ==
    /\ x_out.fn = "local_extractive"
    /\ x_passages # <<>> /\ UsableOfFirstFour = <<>>
    /\ x_out.text = NoClearAnswerHi

----------------------------------------------------------------------------
(* Summarize: llm_preview and llm_save of main.py, llm_preview_v2 of       *)
(* server/ops_router.py, on LLMClient.summarize of services/llm_client.py  *)

\* The number of requests a client sends for one document in the model.
MaxSummarizeCalls == 2

\* The bullet of _toy_bullet_summarize as main.py spells it, with its space.
ToyBulletPrefix == <<195, 162, 226, 130, 172, 194, 162, 32>>

\* "Leave: 12 days"
SummaryReply == <<76, 101, 97, 118, 101, 58, 32, 49, 50, 32, 100, 97, 121, 115>>

\* _take_first_n(items, n)
take_first_n(items, n) == IF Max(0, n) <= 0 THEN <<>> ELSE SubSeq(items, 1, Min(n, Len(items)))

\* collect_doc_text(doc_id, limit): the passages of the document, else its
\* text, else its ocr text, else its chunks; a read that fails counts as one
\* that returns nothing (each is wrapped in try/except: pass).
collect_doc_text(doc, limit) ==
    IF doc.passages # <<>>
    THEN [text |-> Join(take_first_n(doc.passages, limit), <<10, 10>>), source |-> "passages",
          k_reported |-> Len(doc.passages), k_used |-> Len(take_first_n(doc.passages, limit))]
    ELSE IF strip(doc.text) # <<>>
    THEN [text |-> doc.text, source |-> "text", k_reported |-> 0, k_used |-> 1]
    ELSE IF strip(doc.ocr) # <<>>
    THEN [text |-> doc.ocr, source |-> "ocr", k_reported |-> 0, k_used |-> 1]
    ELSE IF doc.chunks # <<>>
    THEN [text |-> Join(take_first_n(doc.chunks, limit), <<10, 10>>), source |-> "mixed",
          k_reported |-> Len(doc.chunks), k_used |-> Len(take_first_n(doc.chunks, limit))]
    ELSE [text |-> <<>>, source |-> "unknown", k_reported |-> 0, k_used |-> 0]

\* _toy_bullet_summarize(text): the first 8 non-empty stripped lines, each cut
\* to 297 characters plus "..." when longer than 300, as bullets.
toy_bullet_summarize(text) ==
    LET stripped == [k \in DOMAIN SplitLines(text) |-> strip(SplitLines(text)[k])]
        lines == SelectIdx(stripped, {k \in DOMAIN stripped : stripped[k] # <<>>}, 1)
        head == SubSeq(lines, 1, Min(8, Len(lines)))
        cut(ln) == IF CharLen(ln) > 300 THEN TakeChars(ln, 297) \o ThreeDots ELSE ln
    IN  Join([k \in DOMAIN head |-> ToyBulletPrefix \o cut(head[k])], <<10>>)

\* main.py, lines 333-336 and 405-407: text[:max(500, int(len(text) * pct / 100))]
\* for 10 <= pct < 100.  The product is computed in floating point; the
\* percentages of the model (50, 100) are exact there.
clip_text(text, pct) ==
    IF 10 <= pct /\ pct < 100
    THEN TakeChars(text, Max(500, (CharLen(text) * pct) \div 100))
    ELSE text

\* llm_preview_v2, lines 773-779: the stripped chunk texts joined by a blank
\* line, cut to floor(len * pct / 100) characters for pct < 100.
chunk_source(rows, pct) ==
    LET src == Join([k \in DOMAIN rows |-> strip(rows[k])], <<10, 10>>)
    IN  IF pct < 100 THEN TakeChars(src, (CharLen(src) * pct) \div 100) ELSE src

\* What llm.summarize does: LLMClient.chat returns the stripped text of a 2xx
\* reply ("" when it is blank or of an unknown shape), raises HTTPStatusError
\* from raise_for_status() and lets the httpx transport errors through.
SummarizeOutcomes ==
    {[kind |-> "text", text |-> SummaryReply],
     [kind |-> "blank", text |-> <<>>],
     [kind |-> "status", text |-> <<>>],
     [kind |-> "exception", text |-> <<>>],
     [kind |-> "timeout", text |-> <<>>]}

summarize_raised(o) == o.kind \in {"status", "exception", "timeout"}

\* if not summary or not summary.strip(): raise RuntimeError("empty summary")
\* (main.py:359-360 and 411)
empty_summary_never(text) == FALSE

empty_summary(text) == strip(text) = <<>>

\* _safe_err_note(e) for the errors of the model
safe_err_note(o) ==
    IF o.kind = "status" THEN "http 502 on POST http://llm/chat"
    ELSE IF o.kind \in {"exception", "timeout"} THEN "request error on POST http://llm/chat"
    ELSE "empty summary"

NoSummary ==
    [kind |-> "none", status |-> "none", source |-> "none", ok |-> "none", summary |-> <<>>,
     note |-> <<>>]

\* JSONResponse({"doc_id", "summary", "note"}, headers) of llm_preview and the
\* Response of llm_preview_v2: X-LLM-Status, X-LLM-Source, summary, note
PreviewResponse(status, source, summary, note) ==
    [NoSummary EXCEPT !.kind = "json", !.status = status, !.source = source,
                      !.summary = summary, !.note = note]

\* The dict of llm_save: ok, note, summary
SaveResponse(ok, summary, note) ==
    [NoSummary EXCEPT !.kind = "json", !.ok = ok, !.summary = summary, !.note = note]

\* The request reaches the handler, which runs up to the call of
\* llm.summarize or to an early return.
\*   llm_preview (main.py:297-391) and llm_save (393-419) get the client
\*   by Depends(get_llm), which raises when no base URL is set; they return
\*   early for a document without text, llm_preview also for force_fallback.
\*   llm_preview_v2 (ops_router.py:707-828) reads the chunks, builds src and
\*   calls get_llm() inside its try.
SummarizeCall ==
    /\ u_pc = "idle"
    /\ LET c == collect_doc_text(u_doc, u_req.topk)
           text == clip_text(c.text, u_req.percent_cap)
           rows == take_first_n(u_doc.chunks, Max(1, Min(50, u_req.topk)))
           src == chunk_source(rows, Max(1, Min(100, u_req.percent_cap)))
           early(r) == /\ u_response' = r
                       /\ u_log' = Append(u_log, [outcome |-> "none", response |-> r])
                       /\ u_pc' = "done"
                       /\ UNCHANGED u_sent
           call(t, s) == /\ u_sent' = [text |-> t, source |-> s]
                         /\ u_pc' = "llm_wait"
                         /\ UNCHANGED <<u_response, u_log>>
       IN  IF u_req.entry = "preview_v2"
           THEN IF ~u_cfg.llm_base_set
                THEN early(PreviewResponse("fallback", "chunks", <<>>, <<>>))
                ELSE call(src, "chunks")
           ELSE IF ~u_cfg.llm_base_set
           THEN early([NoSummary EXCEPT !.kind = "http500"])
           ELSE IF strip(c.text) = <<>>
           THEN IF u_req.entry = "preview"
                THEN early(PreviewResponse("fallback", c.source, <<>>, <<"no text found">>))
                ELSE early(SaveResponse(FALSE, <<>>, <<c.source>>))
           ELSE IF u_req.entry = "preview" /\ u_req.force_fallback
           THEN early(PreviewResponse("fallback", c.source, toy_bullet_summarize(text),
                                      <<c.source, "user_cancel">>))
           ELSE call(text, c.source)
    /\ UNCHANGED <<u_req, u_doc, u_cfg>>
    /\ UNCHANGED notSummVars

\* llm.summarize returned or raised.
\*   llm_preview, lines 347-365, and llm_save, lines 409-415: a raise and an
\*   empty summary give the toy summary and the llm_fallback note.
\*   llm_preview_v2, lines 782-795: a return is status "ok" with the summary
\*   as returned, a raise is status "fallback" with an empty summary.
SummarizeLlmReturn(o) ==
    /\ u_pc = "llm_wait"
    /\ LET failed == summarize_raised(o) \/ empty_summary(o.text)
           toy == toy_bullet_summarize(u_sent.text)
           fb_note == <<u_sent.source, "llm_fallback", safe_err_note(o)>>
           r == IF u_req.entry = "preview"
                THEN (IF failed THEN PreviewResponse("fallback", u_sent.source, toy, fb_note)
                      ELSE PreviewResponse("ok", u_sent.source, o.text, <<u_sent.source>>))
                ELSE IF u_req.entry = "save"
                THEN (IF failed THEN SaveResponse(FALSE, toy, fb_note)
                      ELSE SaveResponse(TRUE, o.text, <<u_sent.source>>))
                ELSE (IF summarize_raised(o) THEN PreviewResponse("fallback", "chunks", <<>>, <<>>)
                      ELSE PreviewResponse("ok", "chunks", o.text, <<>>))
       IN  /\ u_response' = r
           /\ u_log' = Append(u_log, [outcome |-> o.kind, response |-> r])
    /\ u_pc' = "done"
    /\ UNCHANGED <<u_req, u_doc, u_cfg, u_sent>>
    /\ UNCHANGED notSummVars

\* The client sends the same request again.
SummarizeAgain ==
    /\ u_pc = "done" /\ Len(u_log) < MaxSummarizeCalls
    /\ u_pc' = "idle"
    /\ u_response' = NoSummary
    /\ UNCHANGED <<u_req, u_doc, u_cfg, u_sent, u_log>>
    /\ UNCHANGED notSummVars

\* Documents: with passages, with text only, with ocr text only, with chunks
\* only, with nothing, with one blank passage.
NoDoc == [passages |-> <<>>, text |-> <<>>, ocr |-> <<>>, chunks |-> <<>>]

SummarizeDocs ==
    {[NoDoc EXCEPT !.passages = <<TextLeave, TextTagged>>, !.chunks = <<TextLeave, TextTagged>>],
     [NoDoc EXCEPT !.text = TextLeave],
     [NoDoc EXCEPT !.text = TextBlank, !.ocr = TextTagged],
     [NoDoc EXCEPT !.chunks = <<TextLeave>>],
     NoDoc,
     [NoDoc EXCEPT !.passages = <<TextBlank>>, !.chunks = <<TextBlank>>]}

SummarizeRequests ==
    {[entry |-> e, force_fallback |-> f, topk |-> t, percent_cap |-> p] :
        e \in {"preview", "save", "preview_v2"}, f \in BOOLEAN, t \in {1, 24}, p \in {50, 100}}

InitSummarize ==
    /\ u_req \in {r \in SummarizeRequests : r.force_fallback => r.entry = "preview"}
    /\ u_doc \in SummarizeDocs
    /\ u_cfg \in {[llm_base_set |-> b] : b \in BOOLEAN}
    /\ u_pc = "idle"
    /\ u_sent = [source |-> "none"]
    /\ u_response = NoSummary
    /\ u_log = <<>>
    /\ PromptIdle /\ ChatIdle /\ AskIdle /\ RetrIdle /\ SearchIdle /\ AnswererIdle /\ GaskIdle

NextSummarize ==
    \/ SummarizeCall
    \/ \E o \in SummarizeOutcomes : SummarizeLlmReturn(o)
    \/ SummarizeAgain

SpecSummarize == InitSummarize /\ [][NextSummarize]_vars

----------------------------------------------------------------------------
(* A blank reply and a transport failure of the remote generator           *)

\* What a client can tell from a summarize response: the status and source
\* markers, the ok flag and the summary text.
Observable(r) == <<r.kind, r.status, r.source, r.ok, r.summary>>

TransportFailures == {"status", "exception", "timeout"}

\* Two finished calls of the same request, one answered by a blank 2xx reply
\* and one by a failed call, look the same.
BlankLikeFailure(log) ==
    \A i, j \in DOMAIN log :
        (log[i].outcome = "blank" /\ log[j].outcome \in TransportFailures)
            => Observable(log[i].response) = Observable(log[j].response)

\* C22: in every entry point that calls the remote generator (summarize
\* preview, save and preview_v2 here; the ask endpoint is AskBlankLikeFailure)
\* a 2xx reply whose text is blank gives the same status and source marker
\* and the same fallback text as a transport failure of that call.
C22_BlankTreatedAsFailure == BlankLikeFailure(u_log)

\* What holds: llm_preview and llm_save treat the blank reply as a failure.
PreviewAndSaveBlankLikeFailure ==
    u_req.entry \in {"preview", "save"} =>
        /\ BlankLikeFailure(u_log)
        /\ \A i \in DOMAIN u_log :
              u_log[i].outcome \in TransportFailures \cup {"blank"} =>
                  /\ u_log[i].response.summary = toy_bullet_summarize(u_sent.text)
                  /\ u_req.entry = "preview" => u_log[i].response.status = "fallback"
                  /\ u_req.entry = "save" => u_log[i].response.ok = FALSE

\* llm_preview answered a blank reply and a timeout of the same request.
PreviewBlankAndTimeoutWitness ==
    /\ u_req.entry = "preview" /\ Len(u_log) = 2
    /\ u_log[1].outcome = "blank" /\ u_log[2].outcome = "timeout"
    /\ u_log[1].response.summary # <<>>

\* The ask endpoint: a blank reply and a failed call both end in the local
\* answer marked local.
AskBlankLikeFailure ==
    (a_req.entry = "ask" /\ a_pc = "done" /\ a_upstream # <<>>
        /\ a_upstream[1].kind \in TransportFailures \cup {"blank"})
        => /\ a_response.source = "local"
           /\ a_response.answer = SanitizedLocalAnswer

----------------------------------------------------------------------------
(* Gateway ask: _gateway_ask_core of server/ops_router.py                  *)

\* The largest k a request of the model asks for.
MaxK == 6

\* str(a) < str(b) for document ids
RECURSIVE StrLess(_, _)
StrLess(a, b) ==
    IF b = <<>> THEN FALSE
    ELSE IF a = <<>> THEN TRUE
    ELSE IF a[1] # b[1] THEN a[1] < b[1]
    ELSE StrLess(Tail(a), Tail(b))

\* k = max(1, min(10, int(payload.k or 3)))
effective_k(payload_k) == Max(1, Min(10, IF payload_k = 0 THEN 3 ELSE payload_k))

\* per_take = max(1, min(FANOUT_TAKE_PERDOC, k))
per_take(take_perdoc, k) == Max(1, Min(take_perdoc, k))

\* The rows of one document that enter global_rows (lines 1284-1293).
\* Scores are in hundredths.
pool_rows(did, rows, per) ==
    [j \in 1..Min(per, Len(rows)) |->
        [doc_id |-> did, chunk_index |-> rows[j].chunk_index, preview |-> rows[j].preview,
         score |-> rows[j].score]]

\* The sort key of line 1297: (-score, str(doc_id), chunk_index)
key_less(a, b) ==
    \/ a.score > b.score
    \/ a.score = b.score /\ StrLess(a.doc_id, b.doc_id)
    \/ a.score = b.score /\ a.doc_id = b.doc_id /\ a.chunk_index < b.chunk_index

\* A key that looks at the score alone.
key_less_score_only(a, b) == a.score > b.score

\* list.sort is stable: a row goes behind the rows whose key is not greater.
RECURSIVE sort_with(_, _, _)
sort_with(rows, i, sorted) ==
    IF i > Len(rows) THEN sorted
    ELSE LET r == rows[i]
             n == Cardinality({j \in DOMAIN sorted : ~key_less(r, sorted[j])})
         IN  sort_with(rows, i + 1,
                       SubSeq(sorted, 1, n) \o <<r>> \o SubSeq(sorted, n + 1, Len(sorted)))

RECURSIVE sort_score_only_with(_, _, _)
sort_score_only_with(rows, i, sorted) ==
    IF i > Len(rows) THEN sorted
    ELSE LET r == rows[i]
             n == Cardinality({j \in DOMAIN sorted : ~key_less_score_only(r, sorted[j])})
         IN  sort_score_only_with(rows, i + 1,
                       SubSeq(sorted, 1, n) \o <<r>> \o SubSeq(sorted, n + 1, Len(sorted)))

sort_by_score_only(rows) == sort_score_only_with(rows, 1, <<>>)

\* global_rows.sort(key=...)
sort_global_rows(rows) == sort_with(rows, 1, <<>>)

\* The previews that are not empty, in order (joined by "\n---\n" in the code).
RECURSIVE previews_of(_, _)
previews_of(used, i) ==
    IF i > Len(used) THEN <<>>
    ELSE (IF used[i].preview # "" THEN <<used[i].preview>> ELSE <<>>) \o previews_of(used, i + 1)

\* _stitch_multi(rows, k)
stitch_multi(rows, k) ==
    LET used == SubSeq(rows, 1, Min(5, Min(Max(1, k), Len(rows))))
    IN  [stitched |-> previews_of(used, 1),
         cites |-> [j \in DOMAIN used |->
                       [doc_id |-> used[j].doc_id, chunk_index |-> used[j].chunk_index]]]

\* _stitch(doc_id, rows, k)
stitch(did, rows, k) ==
    LET used == SubSeq(rows, 1, Min(5, Min(Max(1, k), Len(rows))))
    IN  [stitched |-> previews_of(used, 1),
         cites |-> [j \in DOMAIN used |->
                       [doc_id |-> did, chunk_index |-> used[j].chunk_index]]]

\* _llm_or_stub: the stripped reply of the LLM, or _model_stub(stitched) when
\* the call raised or the reply is blank.
llm_or_stub(o, stitched) ==
    IF o = "text" THEN "llm"
    ELSE IF stitched = <<>> THEN "no_matches" ELSE "stub"

\* _rate_check raised 429 for a full bucket; otherwise the request is parsed
\* and either answered from one document (lines 1261-1275) up to the call of
\* the LLM, or the fan-out starts.
GatewayAskCall ==
    /\ g_pc = "idle"
    /\ IF g_req.limited
       THEN /\ g_out' = [kind |-> "http429", stitched |-> <<>>, cites |-> <<>>]
            /\ g_pc' = "done"
            /\ UNCHANGED <<g_i, g_rows>>
       ELSE IF g_req.doc_id # <<>>
       THEN LET s == stitch(g_req.doc_id, g_results[g_req.doc_id], effective_k(g_req.k))
            IN  /\ g_out' = [kind |-> "pending", stitched |-> s.stitched, cites |-> s.cites]
                /\ g_pc' = "llm_wait"
                /\ UNCHANGED <<g_i, g_rows>>
       ELSE /\ g_pc' = "fanout"
            /\ g_i' = 1
            /\ g_rows' = <<>>
            /\ UNCHANGED g_out
    /\ UNCHANGED <<g_req, g_cands, g_results>>
    /\ UNCHANGED notGaskVars

\* One round of the loop over cand_ids (lines 1283-1293).
GatewayFanoutStep ==
    /\ g_pc = "fanout" /\ g_i <= Len(g_cands)
    /\ LET did == g_cands[g_i]
           per == per_take(g_req.take_perdoc, effective_k(g_req.k))
       IN  g_rows' = g_rows \o pool_rows(did, g_results[did], per)
    /\ g_i' = g_i + 1
    /\ UNCHANGED <<g_req, g_cands, g_results, g_pc, g_out>>
    /\ UNCHANGED notGaskVars

\* The loop is over: sort, stitch, build the prompt, call the LLM (1296-1301).
GatewayFanoutDone ==
    /\ g_pc = "fanout" /\ g_i > Len(g_cands)
    /\ g_rows' = sort_global_rows(g_rows)
    /\ LET s == stitch_multi(g_rows', effective_k(g_req.k))
       IN  g_out' = [kind |-> "pending", stitched |-> s.stitched, cites |-> s.cites]
    /\ g_pc' = "llm_wait"
    /\ UNCHANGED <<g_req, g_cands, g_results, g_i>>
    /\ UNCHANGED notGaskVars

\* The LLM call is over; AskResponse(answer, cites) is returned.
GatewayLlmReturn(o) ==
    /\ g_pc = "llm_wait"
    /\ g_out' = [g_out EXCEPT !.kind = llm_or_stub(o, g_out.stitched)]
    /\ g_pc' = "done"
    /\ UNCHANGED <<g_req, g_cands, g_results, g_i, g_rows>>
    /\ UNCHANGED notGaskVars

\* Rows as _retrieve_rows_for_doc returns them: ranked by score, then by
\* chunk index; the chunk indices of one document are distinct.
RowA == [chunk_index |-> 0, score |-> 50, preview |-> "a"]

RowB == [chunk_index |-> 1, score |-> 50, preview |-> "b"]

RowC == [chunk_index |-> 2, score |-> 20, preview |-> ""]

RowD == [chunk_index |-> 0, score |-> 0, preview |-> "d"]

RankedLists ==
    {<<>>, <<RowA>>, <<RowD>>, <<RowA, RowB>>, <<RowB, RowC>>, <<RowB, RowD>>,
     <<RowA, RowB, RowC>>}

GatewayDocs == {DocD1, DocD2, DocD3}

\* Every order of the candidate documents.
CandidateOrders ==
    {o \in [1..Cardinality(GatewayDocs) -> GatewayDocs] :
        \A i, j \in DOMAIN o : i # j => o[i] # o[j]}

GatewayRequests ==
    {[k |-> k, doc_id |-> <<>>, limited |-> FALSE, take_perdoc |-> t] :
        k \in {0, 1, MaxK}, t \in {1, 2, 3}}
        \cup {[k |-> 3, doc_id |-> DocD1, limited |-> FALSE, take_perdoc |-> 3],
              [k |-> 3, doc_id |-> <<>>, limited |-> TRUE, take_perdoc |-> 3]}

InitGatewayAsk ==
    /\ g_req \in GatewayRequests
    /\ g_cands \in CandidateOrders
    /\ g_results \in {f \in [GatewayDocs -> RankedLists] :
                        f[DocD3] \in {<<>>, <<RowD>>, <<RowA, RowB, RowC>>}}
    /\ g_i = 0
    /\ g_rows = <<>>
    /\ g_pc = "idle"
    /\ g_out = [kind |-> "none", stitched |-> <<>>, cites |-> <<>>]
    /\ PromptIdle /\ ChatIdle /\ AskIdle /\ RetrIdle /\ SearchIdle /\ AnswererIdle /\ SummIdle

NextGatewayAsk ==
    \/ GatewayAskCall
    \/ GatewayFanoutStep
    \/ GatewayFanoutDone
    \/ \E o \in {"text", "blank", "raised"} : GatewayLlmReturn(o)

SpecGatewayAsk == InitGatewayAsk /\ [][NextGatewayAsk]_vars

----------------------------------------------------------------------------
(* The citations of the global gateway ask                                 *)

\* The fan-out of a request without doc_id has finished.
GlobalFanoutDone ==
    g_pc \in {"llm_wait", "done"} /\ ~g_req.limited /\ g_req.doc_id = <<>>

\* The passages the per-document results contribute, as a set: the first
\* per_take rows of every candidate document.
PooledPassages ==
    UNION {{[doc_id |-> d, chunk_index |-> g_results[d][j].chunk_index,
             score |-> g_results[d][j].score] :
                j \in 1..Min(per_take(g_req.take_perdoc, effective_k(g_req.k)),
                             Len(g_results[d]))} :
           d \in {g_cands[i] : i \in DOMAIN g_cands}}

\* Higher score first, then the smaller document id, then the smaller chunk.
RankedBefore(a, b) ==
    \/ a.score > b.score
    \/ a.score = b.score /\ StrLess(a.doc_id, b.doc_id)
    \/ a.score = b.score /\ a.doc_id = b.doc_id /\ a.chunk_index < b.chunk_index

\* The citations the set of pooled passages determines: position p holds the
\* passage that has p - 1 pooled passages ranked before it.
ExpectedCites ==
    [p \in 1..Min(5, Min(effective_k(g_req.k), Cardinality(PooledPassages))) |->
        LET x == CHOOSE y \in PooledPassages :
                    Cardinality({z \in PooledPassages : RankedBefore(z, y)}) = p - 1
        IN  [doc_id |-> x.doc_id, chunk_index |-> x.chunk_index]]

SingleCiteWitness ==
    /\ GlobalFanoutDone /\ g_pc = "done" /\ g_req.k = 1
    /\ Len(g_rows) = 3 /\ Len(g_out.cites) = 1
====
